---- MODULE Spec2Model ----
(***************************************************************************)
(* Model of the transactions_processor ledger engine                      *)
(* (src/src/api/engine.rs, src/src/api/currency.rs,                       *)
(* src/src/api/engine/account.rs).                                        *)
(*                                                                         *)
(* The engine owns three containers: accounts (client -> Account),        *)
(* transactions (tx -> Currency) and transactions_disputed (set of tx).   *)
(* Every public method of Engine is one action of Spec; calls are made    *)
(* one after another (the methods take &mut self).  SpecConc runs the     *)
(* bodies of the methods on several threads, step by step between lock    *)
(* requests, over the RwLock and Mutex fields of the engine.              *)
(* SpecCurrency makes a Currency, renders it and parses the rendering.    *)
(***************************************************************************)
EXTENDS Integers, FiniteSets, Sequences, TLC

\* ---------------------------------------------------------------- bounds
\* Stand-in for u64::MAX, the largest value a Currency holds
\* (Currency::max() == Currency(u64::MAX)); the model scales it down.
MaxValue == 2
\* A run makes at most MaxCalls calls to the engine.
MaxCalls == 5

\* Stand-in for u64::MAX where values are counted in 1/BASE units: large
\* enough for a value to have a decimal part.
U64_MAX == 24999
\* At most MaxOps calls of add and substract are made on one Currency.
MaxOps == 3
\* The decimal parts given to Currency::new are 0 ..= MaxDecimal.
MaxDecimal == 3
\* The largest number of lines of an input file.
MaxRecords == 3
\* const PRECISION: the number of fractional digits.
PRECISION == 4
\* const BASE = 10^PRECISION
BASE == 10000

\* Client ids (u16 in the source) and transaction ids (u32 in the source)
\* that the calls of a run draw from.
Clients == 1..2
Txs == 1..2
\* Every Currency value a caller can pass: 0 ..= max.
Amounts == 0..MaxValue

VARIABLES
    accounts,               \* Engine.accounts: client -> Account
    transactions,           \* Engine.transactions: tx -> Currency
    transactions_disputed,  \* Engine.transactions_disputed: set of tx
    ret,                    \* the last call and the Result it returned
    called,                 \* history: tx ids ever passed to deposit/withdrawal
    charged_back,           \* history: tx ids whose chargeback returned Ok
    held_on,                \* history: disputed tx -> client whose account holds it
    ncalls,                 \* number of calls made so far
    pc,                     \* thread -> the statement it executes next
    req,                    \* thread -> the call it makes
    tmp,                    \* thread -> its locals (amount, the account guard)
    accounts_lock,          \* RwLock of accounts: readers and writer
    transactions_lock,      \* RwLock of transactions: the writer, 0 if none
    transactions_disputed_lock, \* RwLock of transactions_disputed: the writer
    mutex,                  \* client -> thread holding the account's Mutex
    initial,                \* history: the accounts when the threads started
    currency,               \* a Currency made from two parts, rendered, parsed
    arith,                  \* a Currency that is added to and subtracted from
    stream                  \* the input file being processed, record by record

\* The engine's containers and the history of the calls made one by one.
seq_vars == <<ret, called, charged_back, held_on, ncalls>>
\* The threads and the locks they take.
conc_vars == <<pc, req, tmp, accounts_lock, transactions_lock,
               transactions_disputed_lock, mutex, initial>>
vars == <<accounts, transactions, transactions_disputed, ret, called,
          charged_back, held_on, ncalls, pc, req, tmp, accounts_lock,
          transactions_lock, transactions_disputed_lock, mutex, initial,
          currency, arith, stream>>
\* What is made apart from the calls on the engine.
aux_vars == <<currency, arith, stream>>

\* ------------------------------------------------------------- Currency
\* An addition that wraps around instead of failing.
add_wrapping(self, other) ==
    [ok |-> TRUE, value |-> (self + other) % (MaxValue + 1), err |-> "None"]

\* An addition that stops at the largest value instead of failing.
add_saturating(self, other) ==
    IF self + other <= MaxValue
    THEN [ok |-> TRUE, value |-> self + other, err |-> "None"]
    ELSE [ok |-> TRUE, value |-> MaxValue, err |-> "None"]

\* Currency::add: checked_add; self is assigned only when it succeeds.
add(self, other) ==
    IF self + other <= MaxValue
    THEN [ok |-> TRUE, value |-> self + other, err |-> "None"]
    ELSE [ok |-> FALSE, value |-> self, err |-> "AddingOtherOutOfRange"]

\* A subtraction that clamps at zero instead of failing.
substract_saturating(self, other) ==
    IF other <= self
    THEN [ok |-> TRUE, value |-> self - other, err |-> "None"]
    ELSE [ok |-> TRUE, value |-> 0, err |-> "None"]

\* Currency::substract: checked_sub; self is assigned only when it succeeds.
substract(self, other) ==
    IF other <= self
    THEN [ok |-> TRUE, value |-> self - other, err |-> "None"]
    ELSE [ok |-> FALSE, value |-> self, err |-> "SubstractingOtherNegative"]

\* ------------------------------------------------- Currency as text
\* Text is a sequence of characters; these are the ten digits.
Digits == <<"0", "1", "2", "3", "4", "5", "6", "7", "8", "9">>

\* The digit a character stands for.
digit_of(ch) == CHOOSE d \in 0..9 : Digits[d + 1] = ch

\* What a fallible function returns: Ok(value) or Err(err).
Ok(value) == [ok |-> TRUE, value |-> value, err |-> "None"]
Err(err) == [ok |-> FALSE, value |-> 0, err |-> err]

\* A new that adds the fractional part without checking the sum.
Currency_new_unchecked_add(decimal, fractional) ==
    IF fractional >= BASE
    THEN Err("FractionalOutOfRange")
    ELSE IF decimal * BASE > U64_MAX
    THEN Err("DecimalMultipliedByPrecisionOutOfRange")
    ELSE Ok((decimal * BASE + fractional) % (U64_MAX + 1))

\* Currency::new
Currency_new(decimal, fractional) ==
    IF fractional >= BASE
    THEN Err("FractionalOutOfRange")
    ELSE IF decimal * BASE > U64_MAX
    THEN Err("DecimalMultipliedByPrecisionOutOfRange")
    ELSE IF decimal * BASE + fractional > U64_MAX
    THEN Err("DecimalAddedFractionalOutOfRange")
    ELSE Ok(decimal * BASE + fractional)

\* Display of a u64 ("{}"): its decimal digits, no sign, no padding.
RECURSIVE to_string(_)
to_string(n) ==
    IF n < 10 THEN <<Digits[n + 1]>>
    ELSE to_string(n \div 10) \o <<Digits[(n % 10) + 1]>>

\* A rendering that pads the fractional part with zeros on the left to
\* PRECISION digits.
fmt_padded(self) ==
    LET fractional == to_string(self % BASE) IN
    to_string(self \div BASE) \o <<".">>
        \o [i \in 1..(PRECISION - Len(fractional)) |-> "0"] \o fractional

\* impl fmt::Display for Currency: write!(f, "{}.{}", decimal, fractional)
fmt(self) ==
    to_string(self \div BASE) \o <<".">> \o to_string(self % BASE)

\* The index of the first '.' of input at or after from; Len(input) + 1 if
\* there is none.
RECURSIVE find_dot(_, _)
find_dot(input, from) ==
    IF from > Len(input) THEN Len(input) + 1
    ELSE IF input[from] = "." THEN from
    ELSE find_dot(input, from + 1)

\* The number a sequence of digits denotes.
RECURSIVE number_of(_)
number_of(digits) ==
    IF digits = <<>> THEN 0
    ELSE number_of(SubSeq(digits, 1, Len(digits) - 1)) * 10
             + digit_of(digits[Len(digits)])

\* str::parse::<u64>: an optional '+', then one digit or more, and a value
\* that fits.
parse_u64(text) ==
    LET digits == IF text # <<>> /\ text[1] = "+"
                  THEN SubSeq(text, 2, Len(text)) ELSE text
    IN  IF digits = <<>>
           \/ \E i \in 1..Len(digits) :
                  \A d \in 0..9 : Digits[d + 1] # digits[i]
        THEN Err("ParseIntError")
        ELSE IF number_of(digits) > U64_MAX
        THEN Err("ParseIntError")
        ELSE Ok(number_of(digits))

\* impl TryFrom<&str> for Currency: the first two parts of input.split('.')
try_from(input) ==
    LET dot1 == find_dot(input, 1)
        dot2 == find_dot(input, dot1 + 1)
        decimal == parse_u64(SubSeq(input, 1, dot1 - 1))
        part == IF dot1 <= Len(input)
                THEN SubSeq(input, dot1 + 1, dot2 - 1)
                ELSE <<"0">>
        fractional ==
            parse_u64(part \o [i \in 1..(PRECISION - Len(part)) |-> "0"])
    IN  IF ~decimal.ok
        THEN Err("CannotParseDecimalPart")
        ELSE IF Len(part) > PRECISION
        THEN Err("FractionalTooLong")
        ELSE IF ~fractional.ok
        THEN Err("CannotParseFractionalPart")
        ELSE Currency_new(decimal.value, fractional.value)

\* -------------------------------------------------------------- Account
\* struct Account { available: Currency, held: Currency, locked: bool }
Account == [available : Amounts, held : Amounts, locked : BOOLEAN]

\* Account::default()
Account_default == [available |-> 0, held |-> 0, locked |-> FALSE]

\* ------------------------------------------------------- HashMap helpers
\* HashMap::insert: the value stored under key is replaced or added.
insert(map, key, value) ==
    [k \in DOMAIN map \cup {key} |-> IF k = key THEN value ELSE map[k]]

\* The empty HashMap.
HashMap_new == [k \in {} |-> 0]

\* --------------------------------------------------------------- Engine
\* Every method takes the engine S it is called on: a record of the three
\* containers accounts, transactions and transactions_disputed.
\* What a call leaves behind: the three containers and the returned Result.
Outcome(accs, txs, disputed, result) ==
    [accounts |-> accs, transactions |-> txs,
     transactions_disputed |-> disputed, result |-> result]

\* A record_transaction that reports every id as new.
record_transaction_no_check(S, tx, amount) ==
    [transactions |-> insert(S.transactions, tx, amount), ok |-> TRUE]

\* Engine::record_transaction: insert(tx, amount) stores the amount whether or
\* not the key was present; is_some() on the old value reports the duplicate.
record_transaction(S, tx, amount) ==
    [transactions |-> insert(S.transactions, tx, amount),
     ok |-> tx \notin DOMAIN S.transactions]

\* Engine::get_transaction_amount
get_transaction_amount(S, tx) ==
    IF tx \in DOMAIN S.transactions
    THEN [ok |-> TRUE, amount |-> S.transactions[tx]]
    ELSE [ok |-> FALSE, amount |-> 0]

\* A check that accepts every transaction as disputed.
ensure_transaction_is_disputed_always(S, tx) == TRUE

\* Engine::ensure_transaction_is_disputed
ensure_transaction_is_disputed(S, tx) == tx \in S.transactions_disputed

\* A removal that leaves the disputed set as it is.
transaction_keep_in_disputed_list(S, tx) == S.transactions_disputed

\* Engine::transaction_remove_from_disputed_list
transaction_remove_from_disputed_list(S, tx) == S.transactions_disputed \ {tx}

\* What the code does to one account while it holds the account's mutex:
\* the account as it is left and the Result the method goes on with.
Updated(account, result) == [account |-> account, result |-> result]

\* A deposit that checks available alone, not the total with held.
deposit_to_account_available_only(account, amount) ==
    IF account.locked
    THEN Updated(account, "AccountLocked")
    ELSE LET available == add(account.available, amount) IN
         IF ~available.ok
         THEN Updated(account, "CannotDeposit")
         ELSE Updated([account EXCEPT !.available = available.value], "Ok")

\* Engine::deposit, the account exists: the sum is built on a temporary and
\* written to the account only when nothing failed.
deposit_to_account(account, amount) ==
    IF account.locked
    THEN Updated(account, "AccountLocked")
    ELSE LET available == add(account.available, amount) IN
         IF ~available.ok
         THEN Updated(account, "CannotDeposit")
         ELSE LET total == add(available.value, account.held) IN
              IF ~total.ok
              THEN Updated(account, "CannotDepositTotalExceededMaxLimit")
              ELSE Updated([account EXCEPT !.available = available.value], "Ok")

\* Engine::deposit, no account yet: a default account that holds the deposit.
deposit_new_account(amount) ==
    LET available == add(Account_default.available, amount) IN
    IF ~available.ok
    THEN Updated(Account_default, "CannotDeposit")
    ELSE Updated([Account_default EXCEPT !.available = available.value], "Ok")

\* An entry that inserts the account whether or not one is there.
deposit_entry_overwrite(accs, client, account) ==
    [accounts |-> insert(accs, client, account), result |-> "Ok"]

\* Engine::deposit, the entry of the accounts table under the write lock.
deposit_entry(accs, client, account) ==
    IF client \in DOMAIN accs
    THEN [accounts |-> accs, result |-> "DepositTryAgain"]
    ELSE [accounts |-> insert(accs, client, account), result |-> "Ok"]

\* Engine::deposit
deposit(S, client, tx, amount) ==
    LET recorded == record_transaction(S, tx, amount) IN
    IF ~recorded.ok
    THEN Outcome(S.accounts, recorded.transactions, S.transactions_disputed,
                 "TransactionNotUnique")
    ELSE IF client \in DOMAIN S.accounts
    THEN \* the account exists: update it under its own mutex
         LET updated == deposit_to_account(S.accounts[client], amount) IN
         Outcome([S.accounts EXCEPT ![client] = updated.account],
                 recorded.transactions, S.transactions_disputed, updated.result)
    ELSE \* no account yet: build one and insert it under the write lock
         LET prepared == deposit_new_account(amount) IN
         IF prepared.result # "Ok"
         THEN Outcome(S.accounts, recorded.transactions, S.transactions_disputed,
                      prepared.result)
         ELSE LET entry == deposit_entry(S.accounts, client, prepared.account) IN
              Outcome(entry.accounts, recorded.transactions,
                      S.transactions_disputed, entry.result)

\* A withdrawal that subtracts on a copy and never writes available back.
withdrawal_keeps_available(account, amount) ==
    IF account.locked
    THEN Updated(account, "AccountLocked")
    ELSE LET available == substract(account.available, amount) IN
         Updated(account, IF available.ok THEN "Ok" ELSE "CannotWithdrawal")

\* Engine::withdrawal, under the account's mutex: available is subtracted in
\* place.
withdrawal_from_account(account, amount) ==
    IF account.locked
    THEN Updated(account, "AccountLocked")
    ELSE LET available == substract(account.available, amount) IN
         Updated([account EXCEPT !.available = available.value],
                 IF available.ok THEN "Ok" ELSE "CannotWithdrawal")

\* A withdrawal that opens an empty account for a client that has none.
withdrawal_opens_account(S, client, tx, amount) ==
    LET recorded == record_transaction(S, tx, amount) IN
    IF ~recorded.ok
    THEN Outcome(S.accounts, recorded.transactions, S.transactions_disputed,
                 "TransactionNotUnique")
    ELSE IF client \notin DOMAIN S.accounts
    THEN Outcome(insert(S.accounts, client, Account_default),
                 recorded.transactions, S.transactions_disputed,
                 "AccountDoesNotExist")
    ELSE LET updated == withdrawal_from_account(S.accounts[client], amount) IN
         Outcome([S.accounts EXCEPT ![client] = updated.account],
                 recorded.transactions, S.transactions_disputed, updated.result)

\* Engine::withdrawal
withdrawal(S, client, tx, amount) ==
    LET recorded == record_transaction(S, tx, amount) IN
    IF ~recorded.ok
    THEN Outcome(S.accounts, recorded.transactions, S.transactions_disputed,
                 "TransactionNotUnique")
    ELSE IF client \notin DOMAIN S.accounts
    THEN Outcome(S.accounts, recorded.transactions, S.transactions_disputed,
                 "AccountDoesNotExist")
    ELSE LET updated == withdrawal_from_account(S.accounts[client], amount) IN
         Outcome([S.accounts EXCEPT ![client] = updated.account],
                 recorded.transactions, S.transactions_disputed, updated.result)

\* A dispute that holds the amount and takes from available what is there.
dispute_what_is_available(account, amount) ==
    LET available == substract_saturating(account.available, amount)
        after_available == [account EXCEPT !.available = available.value]
        held == add(account.held, amount)
    IN  IF ~held.ok
        THEN Updated(after_available, "DisputeCannotAddHeld")
        ELSE Updated([after_available EXCEPT !.held = held.value], "Ok")

\* A dispute that takes the amount from available but never holds it.
dispute_without_hold(account, amount) ==
    LET available == substract(account.available, amount)
        after_available == [account EXCEPT !.available = available.value]
        held == add(account.held, amount)
    IN  IF ~available.ok
        THEN Updated(after_available, "DisputeCannotSubstractAvailable")
        ELSE IF ~held.ok
        THEN Updated(after_available, "DisputeCannotAddHeld")
        ELSE Updated(after_available, "Ok")

\* Engine::dispute, under the account's mutex: account.available is written
\* in place before held is tried.
dispute_on_account(account, amount) ==
    LET available == substract(account.available, amount)
        after_available == [account EXCEPT !.available = available.value]
        held == add(account.held, amount)
    IN  IF ~available.ok
        THEN Updated(after_available, "DisputeCannotSubstractAvailable")
        ELSE IF ~held.ok
        THEN Updated(after_available, "DisputeCannotAddHeld")
        ELSE Updated([after_available EXCEPT !.held = held.value], "Ok")

\* Engine::dispute
dispute(S, client, tx) ==
    IF tx \in S.transactions_disputed
    THEN Outcome(S.accounts, S.transactions, S.transactions_disputed,
                 "DisputeAlreadyDisputed")
    ELSE LET found == get_transaction_amount(S, tx) IN
    IF ~found.ok
    THEN Outcome(S.accounts, S.transactions, S.transactions_disputed,
                 "CannotFindTransaction")
    ELSE IF client \notin DOMAIN S.accounts
    THEN Outcome(S.accounts, S.transactions, S.transactions_disputed,
                 "CannotFindAccount")
    ELSE LET updated == dispute_on_account(S.accounts[client], found.amount) IN
         Outcome([S.accounts EXCEPT ![client] = updated.account],
                 S.transactions,
                 IF updated.result = "Ok"
                 THEN S.transactions_disputed \cup {tx}
                 ELSE S.transactions_disputed,
                 updated.result)

\* A resolve that a locked account refuses.
resolve_unless_locked(account, amount) ==
    LET available == add(account.available, amount)
        after_available == [account EXCEPT !.available = available.value]
        held == substract(account.held, amount)
    IN  IF account.locked
        THEN Updated(account, "AccountLocked")
        ELSE IF ~available.ok
        THEN Updated(after_available, "ResolveCannotAddAvailable")
        ELSE IF ~held.ok
        THEN Updated(after_available, "ResolveCannotSubstractHeld")
        ELSE Updated([after_available EXCEPT !.held = held.value], "Ok")

\* Engine::resolve, under the account's mutex: account.available is written
\* in place before held is tried.
resolve_on_account(account, amount) ==
    LET available == add(account.available, amount)
        after_available == [account EXCEPT !.available = available.value]
        held == substract(account.held, amount)
    IN  IF ~available.ok
        THEN Updated(after_available, "ResolveCannotAddAvailable")
        ELSE IF ~held.ok
        THEN Updated(after_available, "ResolveCannotSubstractHeld")
        ELSE Updated([after_available EXCEPT !.held = held.value], "Ok")

\* A resolve that opens a default account for a client that has none.
resolve_opens_account(S, client, tx) ==
    LET found == get_transaction_amount(S, tx) IN
    IF ~found.ok
    THEN Outcome(S.accounts, S.transactions, S.transactions_disputed,
                 "CannotFindTransaction")
    ELSE IF ~ensure_transaction_is_disputed(S, tx)
    THEN Outcome(S.accounts, S.transactions, S.transactions_disputed,
                 "TransactionNotDisputed")
    ELSE LET account == IF client \in DOMAIN S.accounts
                        THEN S.accounts[client] ELSE Account_default
             updated == resolve_on_account(account, found.amount)
         IN  Outcome(insert(S.accounts, client, updated.account),
                     S.transactions,
                     IF updated.result = "Ok"
                     THEN transaction_remove_from_disputed_list(S, tx)
                     ELSE S.transactions_disputed,
                     updated.result)

\* Engine::resolve
resolve(S, client, tx) ==
    LET found == get_transaction_amount(S, tx) IN
    IF ~found.ok
    THEN Outcome(S.accounts, S.transactions, S.transactions_disputed,
                 "CannotFindTransaction")
    ELSE IF ~ensure_transaction_is_disputed(S, tx)
    THEN Outcome(S.accounts, S.transactions, S.transactions_disputed,
                 "TransactionNotDisputed")
    ELSE IF client \notin DOMAIN S.accounts
    THEN Outcome(S.accounts, S.transactions, S.transactions_disputed,
                 "CannotFindAccount")
    ELSE LET updated == resolve_on_account(S.accounts[client], found.amount) IN
         Outcome([S.accounts EXCEPT ![client] = updated.account],
                 S.transactions,
                 IF updated.result = "Ok"
                 THEN transaction_remove_from_disputed_list(S, tx)
                 ELSE S.transactions_disputed,
                 updated.result)

\* A chargeback that forgets to lock the account.
chargeback_no_lock(account, amount) ==
    LET held == substract(account.held, amount) IN
    IF ~held.ok
    THEN Updated(account, "ChargebackCannotSubstractHeld")
    ELSE Updated([account EXCEPT !.held = held.value], "Ok")

\* A chargeback that also returns the amount to available.
chargeback_refund(account, amount) ==
    LET held == substract(account.held, amount) IN
    IF ~held.ok
    THEN Updated(account, "ChargebackCannotSubstractHeld")
    ELSE Updated([account EXCEPT !.held = held.value,
                                 !.available = add(@, amount).value,
                                 !.locked = TRUE], "Ok")

\* Engine::chargeback, under the account's mutex.
chargeback_on_account(account, amount) ==
    LET held == substract(account.held, amount) IN
    IF ~held.ok
    THEN Updated(account, "ChargebackCannotSubstractHeld")
    ELSE Updated([account EXCEPT !.held = held.value, !.locked = TRUE], "Ok")

\* A chargeback that locks every account of the engine.
chargeback_locks_all(S, client, tx) ==
    LET found == get_transaction_amount(S, tx) IN
    IF ~found.ok
    THEN Outcome(S.accounts, S.transactions, S.transactions_disputed,
                 "CannotFindTransaction")
    ELSE IF ~ensure_transaction_is_disputed(S, tx)
    THEN Outcome(S.accounts, S.transactions, S.transactions_disputed,
                 "TransactionNotDisputed")
    ELSE IF client \notin DOMAIN S.accounts
    THEN Outcome(S.accounts, S.transactions, S.transactions_disputed,
                 "CannotFindAccount")
    ELSE LET updated == chargeback_on_account(S.accounts[client], found.amount) IN
         Outcome(IF updated.result = "Ok"
                 THEN [k \in DOMAIN S.accounts |->
                           IF k = client THEN updated.account
                           ELSE [S.accounts[k] EXCEPT !.locked = TRUE]]
                 ELSE S.accounts,
                 S.transactions,
                 IF updated.result = "Ok"
                 THEN transaction_remove_from_disputed_list(S, tx)
                 ELSE S.transactions_disputed,
                 updated.result)

\* Engine::chargeback
chargeback(S, client, tx) ==
    LET found == get_transaction_amount(S, tx) IN
    IF ~found.ok
    THEN Outcome(S.accounts, S.transactions, S.transactions_disputed,
                 "CannotFindTransaction")
    ELSE IF ~ensure_transaction_is_disputed(S, tx)
    THEN Outcome(S.accounts, S.transactions, S.transactions_disputed,
                 "TransactionNotDisputed")
    ELSE IF client \notin DOMAIN S.accounts
    THEN Outcome(S.accounts, S.transactions, S.transactions_disputed,
                 "CannotFindAccount")
    ELSE LET updated == chargeback_on_account(S.accounts[client], found.amount) IN
         Outcome([S.accounts EXCEPT ![client] = updated.account],
                 S.transactions,
                 IF updated.result = "Ok"
                 THEN transaction_remove_from_disputed_list(S, tx)
                 ELSE S.transactions_disputed,
                 updated.result)

\* -------------------------------------------------------------- actions
\* The threads that call one engine at the same time.
Threads == 1..2

\* The locals of a thread: the amount it works with, what it computed for
\* the account behind the mutex and, in print_accounts, the entry the
\* iterator is at and the entries it has still to visit.
NoLocals ==
    [amount |-> 0, updated |-> Updated(Account_default, "Ok"),
     client |-> 0, todo |-> {}]

\* No Currency is being made.
Currency_idle ==
    [stage |-> "idle", decimal |-> 0, fractional |-> 0,
     value |-> Err("None"), text |-> <<>>, parsed |-> Err("None")]

\* No Currency is being added to.
Arith_idle == [self |-> 0, log |-> <<>>]

\* No input file is being processed.
Stream_idle ==
    [input |-> <<>>, status |-> "idle", read |-> 0, processed |-> <<>>,
     warnings |-> 0, printed |-> FALSE]

\* RwLock::new / Mutex::new: nobody holds any lock.
LocksFree ==
    /\ accounts_lock = [readers |-> {}, writer |-> 0]
    /\ transactions_lock = 0
    /\ transactions_disputed_lock = 0
    /\ mutex = [c \in Clients |-> 0]

\* The call just made and what it returned.
Call(op, client, tx, amount, result) ==
    [op |-> op, client |-> client, tx |-> tx, amount |-> amount,
     result |-> result]

\* Engine::new(): three empty containers; nothing has been called.
Init ==
    /\ accounts = HashMap_new
    /\ transactions = HashMap_new
    /\ transactions_disputed = {}
    /\ ret = Call("new", 0, 0, 0, "Ok")
    /\ called = {}
    /\ charged_back = {}
    /\ held_on = HashMap_new
    /\ ncalls = 0
    /\ pc = [th \in Threads |-> "done"]
    /\ req = [th \in Threads |-> Call("new", 0, 0, 0, "Ok")]
    /\ tmp = [th \in Threads |-> NoLocals]
    /\ LocksFree
    /\ initial = HashMap_new
    /\ currency = Currency_idle
    /\ arith = Arith_idle
    /\ stream = Stream_idle

\* struct Engine: accounts maps client ids to accounts, transactions maps
\* transaction ids to amounts, transactions_disputed is a set of ids.
TypeOK ==
    /\ DOMAIN accounts \subseteq Clients
    /\ \A c \in DOMAIN accounts : accounts[c] \in Account
    /\ DOMAIN transactions \subseteq Txs
    /\ \A t \in DOMAIN transactions : transactions[t] \in Amounts
    /\ transactions_disputed \subseteq Txs

\* let mut engine = Engine::new(): the engine as it stands.
engine ==
    [accounts |-> accounts, transactions |-> transactions,
     transactions_disputed |-> transactions_disputed]

\* The containers after a call are those of its outcome.
Commit(out) ==
    /\ ncalls < MaxCalls
    /\ ncalls' = ncalls + 1
    /\ accounts' = out.accounts
    /\ transactions' = out.transactions
    /\ transactions_disputed' = out.transactions_disputed
    /\ UNCHANGED <<conc_vars, aux_vars>>

\* engine.deposit(client, tx, amount)
Deposit(client, tx, amount) ==
    LET out == deposit(engine, client, tx, amount) IN
    /\ Commit(out)
    /\ ret' = Call("deposit", client, tx, amount, out.result)
    /\ called' = called \cup {tx}
    /\ UNCHANGED <<charged_back, held_on>>

\* engine.withdrawal(client, tx, amount)
Withdrawal(client, tx, amount) ==
    LET out == withdrawal(engine, client, tx, amount) IN
    /\ Commit(out)
    /\ ret' = Call("withdrawal", client, tx, amount, out.result)
    /\ called' = called \cup {tx}
    /\ UNCHANGED <<charged_back, held_on>>

\* engine.dispute(client, tx)
Dispute(client, tx) ==
    LET out == dispute(engine, client, tx) IN
    /\ Commit(out)
    /\ ret' = Call("dispute", client, tx, 0, out.result)
    /\ held_on' = IF out.result = "Ok" THEN insert(held_on, tx, client)
                  ELSE held_on
    /\ UNCHANGED <<called, charged_back>>

\* engine.resolve(client, tx)
Resolve(client, tx) ==
    LET out == resolve(engine, client, tx) IN
    /\ Commit(out)
    /\ ret' = Call("resolve", client, tx, 0, out.result)
    /\ held_on' = IF out.result = "Ok"
                  THEN [t \in DOMAIN held_on \ {tx} |-> held_on[t]]
                  ELSE held_on
    /\ UNCHANGED <<called, charged_back>>

\* engine.chargeback(client, tx)
Chargeback(client, tx) ==
    LET out == chargeback(engine, client, tx) IN
    /\ Commit(out)
    /\ ret' = Call("chargeback", client, tx, 0, out.result)
    /\ held_on' = IF out.result = "Ok"
                  THEN [t \in DOMAIN held_on \ {tx} |-> held_on[t]]
                  ELSE held_on
    /\ charged_back' = IF out.result = "Ok" THEN charged_back \cup {tx}
                       ELSE charged_back
    /\ UNCHANGED called

Next ==
    \/ \E client \in Clients, tx \in Txs, amount \in Amounts :
           Deposit(client, tx, amount)
    \/ \E client \in Clients, tx \in Txs, amount \in Amounts :
           Withdrawal(client, tx, amount)
    \/ \E client \in Clients, tx \in Txs : Dispute(client, tx)
    \/ \E client \in Clients, tx \in Txs : Resolve(client, tx)
    \/ \E client \in Clients, tx \in Txs : Chargeback(client, tx)

Spec == Init /\ [][Next]_vars

\* ------------------------------------------- one client, three tx ids
\* The same engine called for a single client with three transaction ids, so
\* that an account that already exists can see two more fresh ids.
OneClient == {1}
ThreeTxs == 1..3

NextOneClient ==
    \/ \E client \in OneClient, tx \in ThreeTxs, amount \in Amounts :
           Deposit(client, tx, amount)
    \/ \E client \in OneClient, tx \in ThreeTxs, amount \in Amounts :
           Withdrawal(client, tx, amount)
    \/ \E client \in OneClient, tx \in ThreeTxs : Dispute(client, tx)
    \/ \E client \in OneClient, tx \in ThreeTxs : Resolve(client, tx)
    \/ \E client \in OneClient, tx \in ThreeTxs : Chargeback(client, tx)

SpecOneClient == Init /\ [][NextOneClient]_vars

\* ------------------------------------------------ threads on one engine
\* The bodies of the Engine methods run by several threads at once, each
\* thread making one call.  A step is what a thread does between two lock
\* requests: a lock request waits (the step is not enabled) until the lock can
\* be granted.  A section that takes one read lock, looks a value up and drops
\* the lock without requesting another lock is one step.

\* The amounts paid in before the threads start and the amounts the threads
\* pay in and out.
ConcAmounts == 1..MaxValue
\* Transaction ids the threads draw from: 1 is in use wherever an account
\* exists when the threads start, 3 and 4 are in use nowhere.
ConcTxs == {1, 3, 4}

\* The three containers of an outcome.
engine_of(out) ==
    [accounts |-> out.accounts, transactions |-> out.transactions,
     transactions_disputed |-> out.transactions_disputed]

\* Engine::new()
Engine_new ==
    [accounts |-> HashMap_new, transactions |-> HashMap_new,
     transactions_disputed |-> {}]

\* Engines left by calls made one after another before the threads start:
\* a new engine; client 1 after a deposit; clients 1 and 2 after a deposit
\* each; client 1 with its deposit disputed; client 1 charged back.
StartEngines ==
    LET one(a) == engine_of(deposit(Engine_new, 1, 1, a))
        two(a, b) == engine_of(deposit(one(a), 2, 2, b))
        disputed(a) == engine_of(dispute(one(a), 1, 1))
        locked(a) == engine_of(chargeback(disputed(a), 1, 1))
    IN  {Engine_new}
        \cup {one(a) : a \in ConcAmounts}
        \cup {two(a, a) : a \in ConcAmounts}
        \cup {disputed(a) : a \in ConcAmounts}
        \cup {locked(a) : a \in ConcAmounts}

\* The calls a thread can make.
ConcCalls ==
    {Call(op, client, tx, amount, "Pending") :
        op \in {"deposit", "withdrawal"}, client \in Clients,
        tx \in ConcTxs, amount \in ConcAmounts}
    \cup {Call(op, client, tx, 0, "Pending") :
        op \in {"dispute", "resolve", "chargeback"}, client \in Clients,
        tx \in ConcTxs}
    \cup {Call("print_accounts", 0, 0, 0, "Pending")}

\* The first statement of a method that requests a lock.
first_statement(op) ==
    CASE op \in {"deposit", "withdrawal"} -> "record_lock"
      [] op = "dispute" -> "disputed_check"
      [] op = "print_accounts" -> "print_read"
      [] OTHER -> "get_transaction_amount"

\* Some engine left by earlier calls; every thread is about to make a call.
InitConc ==
    /\ \E S \in StartEngines :
           /\ accounts = S.accounts
           /\ transactions = S.transactions
           /\ transactions_disputed = S.transactions_disputed
           /\ initial = S.accounts
    /\ ret = Call("new", 0, 0, 0, "Ok")
    /\ called = {}
    /\ charged_back = {}
    /\ held_on = HashMap_new
    /\ ncalls = 0
    /\ req \in [Threads -> ConcCalls]
    /\ pc = [th \in Threads |-> first_statement(req[th].op)]
    /\ tmp = [th \in Threads |-> [NoLocals EXCEPT !.amount = req[th].amount]]
    /\ LocksFree
    /\ currency = Currency_idle
    /\ arith = Arith_idle
    /\ stream = Stream_idle

\* The thread goes on with the statement at label.
Goto(th, label) ==
    /\ pc' = [pc EXCEPT ![th] = label]
    /\ UNCHANGED req

\* The method returns result to the thread.
Return(th, result) ==
    /\ pc' = [pc EXCEPT ![th] = "done"]
    /\ req' = [req EXCEPT ![th].result = result]

\* RwLock::write can be granted: no reader and no writer.
can_write(lock) == lock.writer = 0 /\ lock.readers = {}
\* RwLock::read can be granted: no writer.
can_read(lock) == lock.writer = 0
\* Mutex::lock can be granted to every caller at once.
can_lock_always(holder) == TRUE
\* Mutex::lock can be granted: nobody holds the mutex.
can_lock(holder) == holder = 0

\* The thread is made the writer where it asked for a read guard.
take_write_guard(lock, th) == [lock EXCEPT !.writer = th]
\* RwLock::read is granted: the thread holds a read guard.
take_read_guard(lock, th) == [lock EXCEPT !.readers = @ \cup {th}]
\* A read guard that outlives its block.
read_guard_kept(lock, th) == lock
\* The read guard is dropped at the end of its block.
drop_read_guard(lock, th) == [lock EXCEPT !.readers = @ \ {th}]

\* record_transaction: self.transactions.write()
RecordLock(th) ==
    /\ pc[th] = "record_lock"
    /\ transactions_lock = 0
    /\ transactions_lock' = th
    /\ Goto(th, "record_insert")
    /\ UNCHANGED <<accounts, transactions, transactions_disputed, seq_vars,
                   aux_vars,
                   tmp, accounts_lock, transactions_disputed_lock, mutex,
                   initial>>

\* record_transaction: insert(tx, amount).is_some(), then the guard is dropped
RecordInsert(th) ==
    /\ pc[th] = "record_insert"
    /\ LET recorded == record_transaction(engine, req[th].tx, req[th].amount)
       IN  /\ transactions' = recorded.transactions
           /\ IF recorded.ok
              THEN Goto(th, "accounts_read")
              ELSE Return(th, "TransactionNotUnique")
    /\ transactions_lock' = 0
    /\ UNCHANGED <<accounts, transactions_disputed, seq_vars, aux_vars, tmp,
                   accounts_lock, transactions_disputed_lock, mutex, initial>>

\* self.accounts.read() and get(&client): with Some(mutex) the read guard is
\* kept while the mutex is requested; with None it is dropped and deposit
\* prepares the new account, the other methods return their error.
AccountsRead(th) ==
    /\ pc[th] = "accounts_read"
    /\ can_read(accounts_lock)
    /\ IF req[th].client \in DOMAIN accounts
       THEN /\ accounts_lock' = take_read_guard(accounts_lock, th)
            /\ Goto(th, "mutex_lock")
            /\ UNCHANGED tmp
       ELSE /\ accounts_lock' =
                   drop_read_guard(take_read_guard(accounts_lock, th), th)
            /\ IF req[th].op = "deposit"
               THEN LET prepared == deposit_new_account(tmp[th].amount) IN
                    /\ tmp' = [tmp EXCEPT ![th].updated = prepared]
                    /\ IF prepared.result = "Ok"
                       THEN Goto(th, "accounts_write")
                       ELSE Return(th, prepared.result)
               ELSE /\ UNCHANGED tmp
                    /\ Return(th, IF req[th].op = "withdrawal"
                                  THEN "AccountDoesNotExist"
                                  ELSE "CannotFindAccount")
    /\ UNCHANGED <<accounts, transactions, transactions_disputed, seq_vars,
                   aux_vars,
                   transactions_lock, transactions_disputed_lock, mutex,
                   initial>>

\* What the method does to the account behind the mutex.
on_account(op, account, amount) ==
    CASE op = "deposit" -> deposit_to_account(account, amount)
      [] op = "withdrawal" -> withdrawal_from_account(account, amount)
      [] op = "dispute" -> dispute_on_account(account, amount)
      [] op = "resolve" -> resolve_on_account(account, amount)
      [] OTHER -> chargeback_on_account(account, amount)

\* mutex.lock(): the thread reads the account behind the mutex and computes
\* what it will leave there.
MutexLock(th) ==
    /\ pc[th] = "mutex_lock"
    /\ can_lock(mutex[req[th].client])
    /\ mutex' = [mutex EXCEPT ![req[th].client] = th]
    /\ tmp' = [tmp EXCEPT ![th].updated =
                   on_account(req[th].op, accounts[req[th].client],
                              tmp[th].amount)]
    /\ Goto(th, "account_store")
    /\ UNCHANGED <<accounts, transactions, transactions_disputed, seq_vars,
                   aux_vars,
                   accounts_lock, transactions_lock,
                   transactions_disputed_lock, initial>>

\* The account is written; the mutex guard and the accounts read guard are
\* dropped.  dispute, resolve and chargeback go on to the disputed set when
\* nothing failed; every other case returns.
AccountStore(th) ==
    /\ pc[th] = "account_store"
    /\ accounts' = [accounts EXCEPT ![req[th].client] = tmp[th].updated.account]
    /\ mutex' = [mutex EXCEPT ![req[th].client] = 0]
    /\ accounts_lock' = drop_read_guard(accounts_lock, th)
    /\ IF tmp[th].updated.result = "Ok"
          /\ req[th].op \in {"dispute", "resolve", "chargeback"}
       THEN Goto(th, "disputed_write")
       ELSE Return(th, tmp[th].updated.result)
    /\ UNCHANGED <<transactions, transactions_disputed, seq_vars, aux_vars, tmp,
                   transactions_lock, transactions_disputed_lock, initial>>

\* deposit: self.accounts.write()
AccountsWrite(th) ==
    /\ pc[th] = "accounts_write"
    /\ can_write(accounts_lock)
    /\ accounts_lock' = [accounts_lock EXCEPT !.writer = th]
    /\ Goto(th, "accounts_entry")
    /\ UNCHANGED <<accounts, transactions, transactions_disputed, seq_vars,
                   aux_vars,
                   tmp, transactions_lock, transactions_disputed_lock, mutex,
                   initial>>

\* deposit: accounts_lock_write.entry(client), then the guard is dropped
AccountsEntry(th) ==
    /\ pc[th] = "accounts_entry"
    /\ LET entry == deposit_entry(accounts, req[th].client,
                                  tmp[th].updated.account)
       IN  /\ accounts' = entry.accounts
           /\ Return(th, entry.result)
    /\ accounts_lock' = [accounts_lock EXCEPT !.writer = 0]
    /\ UNCHANGED <<transactions, transactions_disputed, seq_vars, aux_vars, tmp,
                   transactions_lock, transactions_disputed_lock, mutex,
                   initial>>

\* dispute: transactions_disputed.read() and contains(&tx);
\* resolve, chargeback: ensure_transaction_is_disputed
DisputedCheck(th) ==
    /\ pc[th] = "disputed_check"
    /\ transactions_disputed_lock = 0
    /\ IF req[th].op = "dispute"
       THEN IF req[th].tx \in transactions_disputed
            THEN Return(th, "DisputeAlreadyDisputed")
            ELSE Goto(th, "get_transaction_amount")
       ELSE IF ensure_transaction_is_disputed(engine, req[th].tx)
            THEN Goto(th, "accounts_read")
            ELSE Return(th, "TransactionNotDisputed")
    /\ UNCHANGED <<accounts, transactions, transactions_disputed, seq_vars,
                   aux_vars,
                   tmp, accounts_lock, transactions_lock,
                   transactions_disputed_lock, mutex, initial>>

\* get_transaction_amount: transactions.read() and get(&tx)
GetTransactionAmount(th) ==
    /\ pc[th] = "get_transaction_amount"
    /\ transactions_lock = 0
    /\ LET found == get_transaction_amount(engine, req[th].tx) IN
       IF found.ok
       THEN /\ tmp' = [tmp EXCEPT ![th].amount = found.amount]
            /\ Goto(th, IF req[th].op = "dispute" THEN "accounts_read"
                        ELSE "disputed_check")
       ELSE /\ UNCHANGED tmp
            /\ Return(th, "CannotFindTransaction")
    /\ UNCHANGED <<accounts, transactions, transactions_disputed, seq_vars,
                   aux_vars,
                   accounts_lock, transactions_lock,
                   transactions_disputed_lock, mutex, initial>>

\* transactions_disputed.write()
DisputedWrite(th) ==
    /\ pc[th] = "disputed_write"
    /\ transactions_disputed_lock = 0
    /\ transactions_disputed_lock' = th
    /\ Goto(th, "disputed_update")
    /\ UNCHANGED <<accounts, transactions, transactions_disputed, seq_vars,
                   aux_vars,
                   tmp, accounts_lock, transactions_lock, mutex, initial>>

\* dispute: insert(tx); resolve, chargeback:
\* transaction_remove_from_disputed_list; the guard is dropped and Ok returned
DisputedUpdate(th) ==
    /\ pc[th] = "disputed_update"
    /\ transactions_disputed' =
           IF req[th].op = "dispute"
           THEN transactions_disputed \cup {req[th].tx}
           ELSE transaction_remove_from_disputed_list(engine, req[th].tx)
    /\ transactions_disputed_lock' = 0
    /\ Return(th, "Ok")
    /\ UNCHANGED <<accounts, transactions, seq_vars, aux_vars, tmp, accounts_lock,
                   transactions_lock, mutex, initial>>

\* print_accounts: accounts.read() and the first entry of iter(); the
\* HashMap yields its entries in an order the caller does not control.
PrintRead(th) ==
    /\ pc[th] = "print_read"
    /\ can_read(accounts_lock)
    /\ IF accounts = HashMap_new
       THEN /\ accounts_lock' =
                   drop_read_guard(take_read_guard(accounts_lock, th), th)
            /\ UNCHANGED tmp
            /\ Return(th, "Ok")
       ELSE /\ accounts_lock' = take_read_guard(accounts_lock, th)
            /\ \E c \in DOMAIN accounts :
                   tmp' = [tmp EXCEPT ![th].client = c,
                                      ![th].todo = DOMAIN accounts \ {c}]
            /\ Goto(th, "print_lock")
    /\ UNCHANGED <<accounts, transactions, transactions_disputed, seq_vars,
                   aux_vars,
                   transactions_lock, transactions_disputed_lock, mutex,
                   initial>>

\* print_accounts: mutex.lock() of the entry the iterator is at
PrintLock(th) ==
    /\ pc[th] = "print_lock"
    /\ can_lock(mutex[tmp[th].client])
    /\ mutex' = [mutex EXCEPT ![tmp[th].client] = th]
    /\ Goto(th, "print_row")
    /\ UNCHANGED <<accounts, transactions, transactions_disputed, seq_vars,
                   aux_vars,
                   tmp, accounts_lock, transactions_lock,
                   transactions_disputed_lock, initial>>

\* print_accounts: the row is printed and the mutex guard dropped; the
\* iterator moves on, and after the last entry the read guard is dropped.
PrintRow(th) ==
    /\ pc[th] = "print_row"
    /\ mutex' = [mutex EXCEPT ![tmp[th].client] = 0]
    /\ IF tmp[th].todo = {}
       THEN /\ accounts_lock' = drop_read_guard(accounts_lock, th)
            /\ UNCHANGED tmp
            /\ Return(th, "Ok")
       ELSE /\ UNCHANGED accounts_lock
            /\ \E c \in tmp[th].todo :
                   tmp' = [tmp EXCEPT ![th].client = c,
                                      ![th].todo = @ \ {c}]
            /\ Goto(th, "print_lock")
    /\ UNCHANGED <<accounts, transactions, transactions_disputed, seq_vars,
                   aux_vars,
                   transactions_lock, transactions_disputed_lock, initial>>

\* One step of one thread.
Step(th) ==
    \/ RecordLock(th)
    \/ RecordInsert(th)
    \/ AccountsRead(th)
    \/ MutexLock(th)
    \/ AccountStore(th)
    \/ AccountsWrite(th)
    \/ AccountsEntry(th)
    \/ DisputedCheck(th)
    \/ GetTransactionAmount(th)
    \/ DisputedWrite(th)
    \/ DisputedUpdate(th)
    \/ PrintRead(th)
    \/ PrintLock(th)
    \/ PrintRow(th)

NextConc == \E th \in Threads : Step(th)

SpecConc == InitConc /\ [][NextConc]_vars

\* ------------------------------------------- an account with open disputes
\* The same engine and the same calls, started after four calls were made
\* on a new engine: two deposits of client 1 and a dispute of each.
OpenDisputes ==
    LET deposited(a, b) ==
            deposit(deposit(Engine_new, 1, 1, a), 1, 2, b)
        disputed(a, b) ==
            dispute(dispute(deposited(a, b), 1, 1), 1, 2)
    IN  {engine_of(disputed(a, b)) : a \in ConcAmounts, b \in ConcAmounts}

InitDisputed ==
    /\ \E S \in OpenDisputes :
           /\ S.transactions_disputed = {1, 2}
           /\ accounts = S.accounts
           /\ transactions = S.transactions
           /\ transactions_disputed = S.transactions_disputed
    /\ ret = Call("dispute", 1, 2, 0, "Ok")
    /\ called = {1, 2}
    /\ charged_back = {}
    /\ held_on = [t \in {1, 2} |-> 1]
    /\ ncalls = 0
    /\ pc = [th \in Threads |-> "done"]
    /\ req = [th \in Threads |-> Call("new", 0, 0, 0, "Ok")]
    /\ tmp = [th \in Threads |-> NoLocals]
    /\ LocksFree
    /\ initial = HashMap_new
    /\ currency = Currency_idle
    /\ arith = Arith_idle
    /\ stream = Stream_idle

SpecDisputed == InitDisputed /\ [][Next]_vars

\* ------------------------------------------- a Currency made and printed
\* A value is made by Currency::new from a decimal and a fractional part,
\* rendered by Display and the rendering parsed back by try_from.
\* The decimal parts tried: the largest ones are too large for new.
Decimals == 0..MaxDecimal
\* The fractional parts tried: every one in range, and BASE, which is not.
Fractionals == 0..BASE

\* Nothing has been made yet from the two parts.
Currency_input(decimal, fractional) ==
    [stage |-> "input", decimal |-> decimal, fractional |-> fractional,
     value |-> Err("None"), text |-> <<>>, parsed |-> Err("None")]

InitCurrency ==
    /\ accounts = HashMap_new
    /\ transactions = HashMap_new
    /\ transactions_disputed = {}
    /\ ret = Call("new", 0, 0, 0, "Ok")
    /\ called = {}
    /\ charged_back = {}
    /\ held_on = HashMap_new
    /\ ncalls = 0
    /\ pc = [th \in Threads |-> "done"]
    /\ req = [th \in Threads |-> Call("new", 0, 0, 0, "Ok")]
    /\ tmp = [th \in Threads |-> NoLocals]
    /\ LocksFree
    /\ initial = HashMap_new
    /\ \E decimal \in Decimals, fractional \in Fractionals :
           currency = Currency_input(decimal, fractional)
    /\ arith = Arith_idle
    /\ stream = Stream_idle

\* Currency::new(decimal, fractional)
New ==
    /\ currency.stage = "input"
    /\ currency' = [currency EXCEPT
                        !.stage = "new",
                        !.value = Currency_new(currency.decimal,
                                               currency.fractional)]
    /\ UNCHANGED <<accounts, transactions, transactions_disputed, seq_vars,
                   conc_vars, arith, stream>>

\* format!("{}", value) of the value that new returned
Fmt ==
    /\ currency.stage = "new"
    /\ currency.value.ok
    /\ currency' = [currency EXCEPT !.stage = "rendered",
                                    !.text = fmt(currency.value.value)]
    /\ UNCHANGED <<accounts, transactions, transactions_disputed, seq_vars,
                   conc_vars, arith, stream>>

\* Currency::try_from(text) of the rendered text
TryFrom ==
    /\ currency.stage = "rendered"
    /\ currency' = [currency EXCEPT !.stage = "parsed",
                                    !.parsed = try_from(currency.text)]
    /\ UNCHANGED <<accounts, transactions, transactions_disputed, seq_vars,
                   conc_vars, arith, stream>>

NextCurrency == New \/ Fmt \/ TryFrom

SpecCurrency == InitCurrency /\ [][NextCurrency]_vars

\* ------------------------------------- a Currency added to, subtracted from
\* A Currency self to which add(other) and substract(other) are applied one
\* after another; log keeps, for every call, self before it, other and what
\* the call returned.
InitArith ==
    /\ accounts = HashMap_new
    /\ transactions = HashMap_new
    /\ transactions_disputed = {}
    /\ ret = Call("new", 0, 0, 0, "Ok")
    /\ called = {}
    /\ charged_back = {}
    /\ held_on = HashMap_new
    /\ ncalls = 0
    /\ pc = [th \in Threads |-> "done"]
    /\ req = [th \in Threads |-> Call("new", 0, 0, 0, "Ok")]
    /\ tmp = [th \in Threads |-> NoLocals]
    /\ LocksFree
    /\ initial = HashMap_new
    /\ currency = Currency_idle
    /\ \E self \in Amounts : arith = [self |-> self, log |-> <<>>]
    /\ stream = Stream_idle

\* One call on self: self becomes what the call left in it.
Applied(op, other, result) ==
    /\ Len(arith.log) < MaxOps
    /\ arith' = [self |-> result.value,
                 log |-> Append(arith.log,
                                [op |-> op, before |-> arith.self,
                                 other |-> other, result |-> result])]
    /\ UNCHANGED <<accounts, transactions, transactions_disputed, seq_vars,
                   conc_vars, currency, stream>>

\* self.add(other)
Add(other) == Applied("add", other, add(arith.self, other))

\* self.substract(other)
Substract(other) == Applied("substract", other, substract(arith.self, other))

NextArith ==
    \/ \E other \in Amounts : Add(other)
    \/ \E other \in Amounts : Substract(other)

SpecArith == InitArith /\ [][NextArith]_vars

\* ------------------------------------------------ an input file processed
\* process(file): the records of a csv file are read one by one, each one is
\* deserialized and dispatched to one engine, and the accounts are printed
\* at the end of the input.

\* Option<&str>
None == [some |-> FALSE, text |-> <<>>]
Some(text) == [some |-> TRUE, text |-> text]

\* The amount column of the lines tried: empty, a text that try_from takes
\* (0.0001) and one that it refuses (0.00001, five fractional digits).
AmountFields ==
    {None,
     Some(<<"0", ".", "0", "0", "0", "1">>),
     Some(<<"0", ".", "0", "0", "0", "0", "1">>)}

\* struct Transaction { type_, client, tx, amount }: the ones tried.
Transactions ==
    [type_ : {"deposit", "withdrawal"}, client : OneClient, tx : Txs,
     amount : AmountFields]
    \cup [type_ : {"dispute", "resolve", "chargeback"}, client : OneClient,
          tx : Txs, amount : {None}]

\* What stands in a line that holds no transaction.
NoTransaction == [type_ |-> "none", client |-> 0, tx |-> 0, amount |-> None]

\* The lines of a file: one that the csv reader cannot read as a record, one
\* that it reads but that does not deserialize into a Transaction, and the
\* well-formed ones.
Lines ==
    {[kind |-> "unreadable", transaction |-> NoTransaction],
     [kind |-> "undecodable", transaction |-> NoTransaction]}
    \cup {[kind |-> "record", transaction |-> t] : t \in Transactions}

\* let mut engine = Engine::new(); the reader is at the first record.  The
\* lines of the file are chosen as the reader reads them; stream.input keeps
\* the lines read so far.
InitStream ==
    /\ accounts = HashMap_new
    /\ transactions = HashMap_new
    /\ transactions_disputed = {}
    /\ ret = Call("new", 0, 0, 0, "Ok")
    /\ called = {}
    /\ charged_back = {}
    /\ held_on = HashMap_new
    /\ ncalls = 0
    /\ pc = [th \in Threads |-> "done"]
    /\ req = [th \in Threads |-> Call("new", 0, 0, 0, "Ok")]
    /\ tmp = [th \in Threads |-> NoLocals]
    /\ LocksFree
    /\ initial = HashMap_new
    /\ currency = Currency_idle
    /\ arith = Arith_idle
    /\ stream = [Stream_idle EXCEPT !.status = "running"]

\* What dispatch leaves behind: the engine, the Result, and the engine
\* method that was called ("none" when dispatch returned before any call).
Dispatched(out, call) ==
    [accounts |-> out.accounts, transactions |-> out.transactions,
     transactions_disputed |-> out.transactions_disputed,
     result |-> out.result, call |-> call]

\* A dispatch or a process_record that returns err before any engine call.
Rejected(S, err) ==
    Dispatched(Outcome(S.accounts, S.transactions, S.transactions_disputed,
                       err), "none")

\* A get_and_parse_amount that takes a missing amount for zero.
get_and_parse_amount_or_default(amount) ==
    IF ~amount.some
    THEN Ok(0)
    ELSE LET parsed == try_from(amount.text) IN
         IF ~parsed.ok
         THEN Err("CannotParseMandatoryInputAmountInInputRecord")
         ELSE Ok(parsed.value)

\* get_and_parse_amount
get_and_parse_amount(amount) ==
    IF ~amount.some
    THEN Err("MissedMandatoryAmountInInputRecord")
    ELSE LET parsed == try_from(amount.text) IN
         IF ~parsed.ok
         THEN Err("CannotParseMandatoryInputAmountInInputRecord")
         ELSE Ok(parsed.value)

\* dispatch: the amount is parsed before deposit or withdrawal is called;
\* an engine error is returned as it is.
dispatch(S, transaction) ==
    LET client == transaction.client
        tx == transaction.tx
    IN  CASE transaction.type_ = "deposit" ->
                 LET amount == get_and_parse_amount(transaction.amount) IN
                 IF ~amount.ok THEN Rejected(S, amount.err)
                 ELSE Dispatched(deposit(S, client, tx, amount.value),
                                 "deposit")
          [] transaction.type_ = "withdrawal" ->
                 LET amount == get_and_parse_amount(transaction.amount) IN
                 IF ~amount.ok THEN Rejected(S, amount.err)
                 ELSE Dispatched(withdrawal(S, client, tx, amount.value),
                                 "withdrawal")
          [] transaction.type_ = "dispute" ->
                 Dispatched(dispute(S, client, tx), "dispute")
          [] transaction.type_ = "resolve" ->
                 Dispatched(resolve(S, client, tx), "resolve")
          [] transaction.type_ = "chargeback" ->
                 Dispatched(chargeback(S, client, tx), "chargeback")

\* process_record: deserialize the record, then dispatch the transaction.
process_record(S, raw_record) ==
    IF raw_record.kind = "undecodable"
    THEN Rejected(S, "CannotDeserializeRecord")
    ELSE dispatch(S, raw_record.transaction)

\* A loop that returns the error of a record instead of going on.
return_record_error(s, err) == [s EXCEPT !.status = "failed"]

\* print_record_warning: a warning is written and the loop goes on.
print_record_warning(s, err) == [s EXCEPT !.warnings = @ + 1]

\* A line that cannot be read as a record.
Unreadable == [kind |-> "unreadable", transaction |-> NoTransaction]

\* read_byte_record returns Err: process returns the error, nothing is
\* printed and main exits with status 1.
ReadRecordError ==
    /\ stream.status = "running"
    /\ Len(stream.input) < MaxRecords
    /\ stream' = [stream EXCEPT !.input = Append(@, Unreadable),
                                !.status = "failed"]
    /\ UNCHANGED <<accounts, transactions, transactions_disputed, seq_vars,
                   conc_vars, currency, arith>>

\* read_byte_record returns Ok(false): the loop is left, print_accounts
\* prints the summary and process returns Ok(()).
EndOfInput ==
    /\ stream.status = "running"
    /\ stream' = [stream EXCEPT !.status = "done", !.printed = TRUE]
    /\ UNCHANGED <<accounts, transactions, transactions_disputed, seq_vars,
                   conc_vars, currency, arith>>

\* read_byte_record returns Ok(true) with raw_record: the record is
\* processed, and an error of process_record is printed as a warning.
ProcessRecord(raw_record) ==
    /\ stream.status = "running"
    /\ Len(stream.input) < MaxRecords
    /\ LET out == process_record(engine, raw_record)
           read == [stream EXCEPT
                        !.input = Append(@, raw_record),
                        !.read = @ + 1,
                        !.processed =
                            Append(@, [record |-> raw_record,
                                       result |-> out.result,
                                       call |-> out.call])]
       IN  /\ accounts' = out.accounts
           /\ transactions' = out.transactions
           /\ transactions_disputed' = out.transactions_disputed
           /\ stream' = IF out.result = "Ok" THEN read
                        ELSE print_record_warning(read, out.result)
    /\ UNCHANGED <<seq_vars, conc_vars, currency, arith>>

NextStream ==
    \/ ReadRecordError
    \/ EndOfInput
    \/ \E raw_record \in Lines \ {Unreadable} : ProcessRecord(raw_record)

SpecStream == InitStream /\ [][NextStream]_vars

\* The loop is a single thread that never blocks: it keeps taking steps
\* until process returns.
SpecStreamFair == SpecStream /\ WF_vars(NextStream)

\* ------------------------------------------------------------ vocabulary
Failed(r) == r.result # "Ok"
IsPayment(r) == r.op \in {"deposit", "withdrawal"}
IsLifecycle(r) == r.op \in {"dispute", "resolve", "chargeback"}

\* The sum of the recorded amounts of the transactions in set.
RECURSIVE SumAmounts(_)
SumAmounts(set) ==
    IF set = {} THEN 0
    ELSE LET t == CHOOSE x \in set : TRUE
         IN  transactions[t] + SumAmounts(set \ {t})

\* ----------------------------------------------------------------- C1
\* C1: a call that returns an error leaves available, held and locked of
\* every account as they were before the call.
C1_FailedCallKeepsBalances ==
    [][Failed(ret') => accounts' = accounts]_vars

\* ----------------------------------------------------------------- C2
\* C2: the amount recorded for a transaction id is the amount of the first
\* deposit or withdrawal that used the id, and it never changes afterwards.
C2_RecordedAmountIsFirst ==
    [][\A t \in Txs :
          IF t \in DOMAIN transactions
          THEN t \in DOMAIN transactions' /\ transactions'[t] = transactions[t]
          ELSE t \in DOMAIN transactions' =>
                   /\ IsPayment(ret')
                   /\ ret'.tx = t
                   /\ transactions'[t] = ret'.amount]_vars

\* ----------------------------------------------------------------- C3
\* C3: once a deposit or withdrawal was called with a transaction id, every
\* later deposit or withdrawal with that id, for any client and amount,
\* fails with TransactionNotUnique and changes no account.
C3_TxIdUsedOnce ==
    [][(IsPayment(ret') /\ ret'.tx \in called) =>
          (ret'.result = "TransactionNotUnique" /\ accounts' = accounts)]_vars

\* A deposit is refused for an id that only a failed withdrawal used before.
C3_Witness ==
    /\ ret.op = "deposit"
    /\ ret.result = "TransactionNotUnique"
    /\ DOMAIN accounts = {}

\* ----------------------------------------------------------------- C4
\* C4: a transaction record is created only by a deposit or withdrawal that
\* succeeds; right after a deposit or withdrawal that returns an error other
\* than TransactionNotUnique, a dispute on its id fails with
\* CannotFindTransaction and moves no funds.
C4_RecordOnlyIfSucceeded ==
    [][/\ \A t \in DOMAIN transactions' \ DOMAIN transactions :
              IsPayment(ret') /\ ret'.tx = t /\ ret'.result = "Ok"
       /\ ( /\ IsPayment(ret)
            /\ ret.result \notin {"Ok", "TransactionNotUnique"}
            /\ ret'.op = "dispute"
            /\ ret'.tx = ret.tx )
          => (ret'.result = "CannotFindTransaction" /\ accounts' = accounts)
      ]_vars

\* ----------------------------------------------------------------- C5
\* C5: dispute succeeds only on a recorded, undisputed transaction and
\* otherwise fails with DisputeAlreadyDisputed (disputed) or
\* CannotFindTransaction (unknown); resolve and chargeback succeed only on a
\* disputed transaction and otherwise fail with CannotFindTransaction
\* (unknown) or TransactionNotDisputed.
C5_LifecycleLegality ==
    [][/\ ret'.op = "dispute" =>
              /\ ret'.result = "Ok" =>
                     /\ ret'.tx \in DOMAIN transactions
                     /\ ret'.tx \notin transactions_disputed
              /\ ret'.tx \in transactions_disputed =>
                     ret'.result = "DisputeAlreadyDisputed"
              /\ ret'.tx \notin DOMAIN transactions =>
                     ret'.result = "CannotFindTransaction"
       /\ ret'.op \in {"resolve", "chargeback"} =>
              /\ ret'.result = "Ok" => ret'.tx \in transactions_disputed
              /\ ret'.tx \notin DOMAIN transactions =>
                     ret'.result = "CannotFindTransaction"
              /\ ret'.tx \in DOMAIN transactions \ transactions_disputed =>
                     ret'.result = "TransactionNotDisputed"
      ]_vars

\* A second dispute of a disputed transaction was refused while another
\* recorded transaction stays undisputed.
C5_Witness ==
    /\ ret.op = "dispute"
    /\ ret.result = "DisputeAlreadyDisputed"
    /\ DOMAIN transactions \ transactions_disputed # {}

\* ----------------------------------------------------------------- C6
\* C6: once a chargeback of a transaction has succeeded, no later dispute,
\* resolve or chargeback of that transaction succeeds.
C6_ChargedBackIsTerminal ==
    [][(IsLifecycle(ret') /\ ret'.tx \in charged_back) => Failed(ret')]_vars

\* ----------------------------------------------------------------- C7
\* C7: for every account, held equals the sum of the recorded amounts of the
\* currently disputed transactions whose dispute was applied to that account
\* (so held is 0 everywhere when nothing is disputed).
C7_HeldIsSumOfDisputed ==
    /\ DOMAIN held_on = transactions_disputed
    /\ \A c \in DOMAIN accounts :
           accounts[c].held =
               SumAmounts({t \in transactions_disputed : held_on[t] = c})

\* ----------------------------------------------------------------- C8
\* C8: a successful chargeback leaves the account locked; a locked account
\* is never unlocked; and every later deposit or withdrawal for it fails
\* (TransactionNotUnique for a reused id, AccountLocked otherwise) and
\* leaves its available and held unchanged.
C8_LockedIsTerminal ==
    [][/\ (ret'.op = "chargeback" /\ ret'.result = "Ok") =>
              accounts'[ret'.client].locked
       /\ \A c \in DOMAIN accounts :
              accounts[c].locked =>
                  /\ c \in DOMAIN accounts'
                  /\ accounts'[c].locked
                  /\ (IsPayment(ret') /\ ret'.client = c) =>
                         /\ ret'.result =
                                IF ret'.tx \in called
                                THEN "TransactionNotUnique"
                                ELSE "AccountLocked"
                         /\ accounts'[c].available = accounts[c].available
                         /\ accounts'[c].held = accounts[c].held
      ]_vars

\* A deposit with a fresh id was refused because the account is locked.
C8_Witness ==
    /\ ret.op = "deposit"
    /\ ret.result = "AccountLocked"
    /\ accounts[ret.client].locked

\* ----------------------------------------------------------------- C9
\* C9: a successful deposit adds exactly the amount to the client's
\* available, leaves held and locked alone and records the id with the
\* amount; a missing account is created with available = amount, held = 0,
\* locked = false.
C9_DepositEffect ==
    [][(ret'.op = "deposit" /\ ret'.result = "Ok") =>
          /\ ret'.tx \in DOMAIN transactions'
          /\ transactions'[ret'.tx] = ret'.amount
          /\ ret'.client \in DOMAIN accounts'
          /\ accounts'[ret'.client] =
                 IF ret'.client \in DOMAIN accounts
                 THEN [accounts[ret'.client] EXCEPT
                           !.available = @ + ret'.amount]
                 ELSE [available |-> ret'.amount, held |-> 0,
                       locked |-> FALSE]
      ]_vars

\* A positive deposit was added to an account that has funds on hold.
C9_Witness ==
    /\ ret.op = "deposit"
    /\ ret.result = "Ok"
    /\ ret.amount > 0
    /\ accounts[ret.client].held > 0

\* ---------------------------------------------------------------- C10
\* C10: a withdrawal with a fresh id fails with AccountDoesNotExist when the
\* client has no account, with AccountLocked when the account is locked and
\* with CannotWithdrawal when the amount exceeds available, changing no
\* account; otherwise it succeeds and takes exactly the amount from
\* available, leaving held and locked alone.
C10_WithdrawalContract ==
    [][(ret'.op = "withdrawal" /\ ret'.tx \notin called) =>
          LET c == ret'.client
              a == ret'.amount
          IN  /\ ret'.result =
                     IF c \notin DOMAIN accounts THEN "AccountDoesNotExist"
                     ELSE IF accounts[c].locked THEN "AccountLocked"
                     ELSE IF a > accounts[c].available THEN "CannotWithdrawal"
                     ELSE "Ok"
              /\ accounts' =
                     IF ret'.result = "Ok"
                     THEN [accounts EXCEPT ![c].available = @ - a]
                     ELSE accounts
      ]_vars

\* A withdrawal of more than the available funds was refused.
C10_Witness ==
    /\ ret.op = "withdrawal"
    /\ ret.result = "CannotWithdrawal"
    /\ accounts[ret.client].available > 0

\* ---------------------------------------------------------------- C11
\* C11: a successful dispute takes exactly the recorded amount of the
\* transaction from the client's available and adds it to the client's held
\* (available + held is unchanged), leaves locked and every other account
\* alone, and adds the transaction to the disputed set.
C11_DisputeEffect ==
    [][(ret'.op = "dispute" /\ ret'.result = "Ok") =>
          LET c == ret'.client
              t == ret'.tx
          IN  /\ c \in DOMAIN accounts
              /\ t \in DOMAIN transactions
              /\ accounts' =
                     [accounts EXCEPT
                          ![c].available = @ - transactions[t],
                          ![c].held = @ + transactions[t]]
              /\ accounts'[c].available + accounts'[c].held =
                     accounts[c].available + accounts[c].held
              /\ t \notin transactions_disputed
              /\ transactions_disputed' = transactions_disputed \cup {t}
      ]_vars

\* A dispute moved a positive amount to held and left funds available.
C11_Witness ==
    /\ ret.op = "dispute"
    /\ ret.result = "Ok"
    /\ transactions[ret.tx] > 0
    /\ accounts[ret.client].available > 0
    /\ accounts[ret.client].held = transactions[ret.tx]

\* ---------------------------------------------------------------- C12
\* C12: wherever dispute(c, t) succeeds, resolve(c, t) called right after it
\* succeeds and gives back the accounts and the disputed set as they were
\* before the dispute; and wherever two disputes on one account succeed one
\* after the other, resolving both, in either order, gives back the accounts
\* and the disputed set as they were before the first dispute.
C12_ResolveUndoesDispute ==
    \A c \in Clients, t \in Txs :
        LET d == dispute(engine, c, t) IN
        d.result = "Ok" =>
            /\ LET r == resolve(d, c, t)
               IN  /\ r.result = "Ok"
                   /\ r.accounts = accounts
                   /\ r.transactions_disputed = transactions_disputed
            /\ \A u \in Txs \ {t} :
                   LET d2 == dispute(d, c, u) IN
                   d2.result = "Ok" =>
                       LET tu == resolve(resolve(d2, c, t), c, u)
                           ut == resolve(resolve(d2, c, u), c, t)
                       IN  /\ resolve(d2, c, t).result = "Ok"
                           /\ resolve(d2, c, u).result = "Ok"
                           /\ tu.result = "Ok"
                           /\ ut.result = "Ok"
                           /\ tu.accounts = accounts
                           /\ ut.accounts = accounts
                           /\ tu.transactions_disputed = transactions_disputed
                           /\ ut.transactions_disputed = transactions_disputed

\* A resolve succeeded on an account with two open disputes of positive
\* amounts: one is resolved, the other is still held.
C12_Witness ==
    /\ ret.op = "resolve"
    /\ ret.result = "Ok"
    /\ transactions[ret.tx] > 0
    /\ \E u \in transactions_disputed :
           /\ held_on[u] = ret.client
           /\ transactions[u] > 0
           /\ accounts[ret.client].held = transactions[u]
    /\ accounts[ret.client].available = transactions[ret.tx]

\* ---------------------------------------------------------------- C13
\* C13: a successful chargeback takes exactly the recorded amount of the
\* transaction from the client's held, leaves available alone, locks the
\* account and removes the transaction from the disputed set; a failed
\* chargeback leaves every locked flag and the disputed set unchanged.
C13_ChargebackEffect ==
    [][ret'.op = "chargeback" =>
          LET c == ret'.client
              t == ret'.tx
          IN  IF ret'.result = "Ok"
              THEN /\ c \in DOMAIN accounts
                   /\ t \in DOMAIN transactions
                   /\ accounts' =
                          [accounts EXCEPT
                               ![c].held = @ - transactions[t],
                               ![c].locked = TRUE]
                   /\ t \in transactions_disputed
                   /\ transactions_disputed' = transactions_disputed \ {t}
              ELSE /\ DOMAIN accounts' = DOMAIN accounts
                   /\ \A k \in DOMAIN accounts :
                          accounts'[k].locked = accounts[k].locked
                   /\ transactions_disputed' = transactions_disputed
      ]_vars

\* A chargeback voided a positive held amount on an account that still has
\* funds available.
C13_Witness ==
    /\ ret.op = "chargeback"
    /\ ret.result = "Ok"
    /\ transactions[ret.tx] > 0
    /\ accounts[ret.client].available > 0
    /\ accounts[ret.client].held = 0
    /\ accounts[ret.client].locked

\* ---------------------------------------------------------------- C14
\* C14: on an existing unlocked account, wherever a deposit of an amount with
\* a fresh id succeeds, a withdrawal of the same amount with another fresh
\* id called right after it succeeds and leaves the account's available,
\* held and locked as they were before the deposit.
C14_DepositThenWithdrawal ==
    \A c \in DOMAIN accounts, a \in Amounts :
        \A t1 \in ThreeTxs \ called, t2 \in ThreeTxs \ called :
            (t1 # t2 /\ ~accounts[c].locked) =>
                LET d == deposit(engine, c, t1, a) IN
                d.result = "Ok" =>
                    LET w == withdrawal(d, c, t2, a)
                    IN  /\ w.result = "Ok"
                        /\ w.accounts[c] = accounts[c]

\* Three calls were made: a deposit that created the account, a second
\* deposit of the same positive amount and a withdrawal of that amount,
\* which succeeded and left available where the second deposit found it.
C14_Witness ==
    /\ ncalls = 3
    /\ DOMAIN transactions = ThreeTxs
    /\ ret.op = "withdrawal"
    /\ ret.result = "Ok"
    /\ ret.amount > 0
    /\ \A t \in ThreeTxs : transactions[t] = ret.amount
    /\ accounts[ret.client].available = ret.amount

\* ------------------------------------------- vocabulary of the threads
\* The sum of the amounts of the calls op on client that returned Ok to the
\* threads in ths.
RECURSIVE SumOk(_, _, _)
SumOk(ths, client, op) ==
    IF ths = {} THEN 0
    ELSE LET th == CHOOSE x \in ths : TRUE IN
         (IF req[th].op = op /\ req[th].client = client
             /\ req[th].result = "Ok"
          THEN req[th].amount ELSE 0)
         + SumOk(ths \ {th}, client, op)

\* Every thread has returned.
AllReturned == \A th \in Threads : pc[th] = "done"

\* The thread waits: the lock it requests cannot be granted.
Waiting(th) == pc[th] # "done" /\ ~ENABLED Step(th)

\* The set of account mutexes the thread holds.
MutexesHeld(th) == {c \in Clients : mutex[c] = th}

\* ---------------------------------------------------------------- C15
\* Every thread deposits to the client, which has no account when the
\* threads start.
FirstDepositRace(c) ==
    /\ c \notin DOMAIN initial
    /\ \A th \in Threads : req[th].op = "deposit" /\ req[th].client = c

\* C15: when all threads deposit to a client that has no account, a thread
\* that reaches the entry under the accounts write lock and finds it occupied
\* returns DepositTryAgain and leaves the accounts as they are, a thread that
\* finds it vacant inserts a default account holding its own amount; an
\* account once inserted is never removed, and at every moment the account
\* holds exactly the amounts of the deposits that returned Ok, so nothing of
\* a losing deposit is in it.
C15_FirstDepositRace ==
    [][ \A c \in Clients : FirstDepositRace(c) =>
          /\ \A th \in Threads :
                 (pc[th] = "accounts_entry" /\ pc'[th] = "done") =>
                     IF c \in DOMAIN accounts
                     THEN /\ req'[th].result = "DepositTryAgain"
                          /\ accounts' = accounts
                     ELSE /\ req'[th].result = "Ok"
                          /\ accounts' =
                                 insert(accounts, c,
                                        [Account_default EXCEPT
                                             !.available = req[th].amount])
          /\ c \in DOMAIN accounts => c \in DOMAIN accounts'
          /\ c \in DOMAIN accounts' =>
                 accounts'[c] =
                     [Account_default EXCEPT
                          !.available = SumOk(Threads, c, "deposit")']
      ]_vars

\* Both threads deposited different amounts to a client without an account:
\* one inserted the account, the other found the entry occupied, and the
\* account holds the winner's amount only.
C15_Witness ==
    /\ AllReturned
    /\ \E c \in Clients : \E winner \in Threads, loser \in Threads :
           /\ FirstDepositRace(c)
           /\ req[winner].result = "Ok"
           /\ req[loser].result = "DepositTryAgain"
           /\ req[winner].amount # req[loser].amount
           /\ accounts[c].available = req[winner].amount

\* ---------------------------------------------------------------- C16
\* Every thread deposits to or withdraws from the client, whose account
\* exists and is not locked when the threads start, each with its own id.
PaymentsOn(c) ==
    /\ c \in DOMAIN initial
    /\ ~initial[c].locked
    /\ \A th \in Threads :
           /\ req[th].op \in {"deposit", "withdrawal"}
           /\ req[th].client = c
    /\ \A th1 \in Threads, th2 \in Threads :
           th1 # th2 => req[th1].tx # req[th2].tx

\* C16: while the threads deposit to and withdraw from one existing unlocked
\* account with distinct ids, in every interleaving the account's available
\* is its initial available plus the deposits that have returned Ok minus
\* the withdrawals that have returned Ok.
C16_NoLostUpdates ==
    \A c \in Clients : PaymentsOn(c) =>
        accounts[c].available =
            initial[c].available + SumOk(Threads, c, "deposit")
                - SumOk(Threads, c, "withdrawal")

\* A deposit and a withdrawal raced on an account: both returned Ok, and the
\* withdrawal took more than the account held before the deposit.
C16_Witness ==
    /\ AllReturned
    /\ \E c \in Clients : \E d \in Threads, w \in Threads :
           /\ PaymentsOn(c)
           /\ req[d].op = "deposit" /\ req[d].result = "Ok"
           /\ req[w].op = "withdrawal" /\ req[w].result = "Ok"
           /\ req[w].amount > initial[c].available
           /\ accounts[c].available =
                  initial[c].available + req[d].amount - req[w].amount

\* ---------------------------------------------------------------- C17
\* A fair scheduler: a thread that can take a step eventually takes one.
SpecConcFair == SpecConc /\ \A th \in Threads : WF_vars(Step(th))

\* While some thread has not returned, some thread can take a step.
NoDeadlock == AllReturned \/ \E th \in Threads : ENABLED Step(th)

\* C17: under a fair scheduler the calls that the threads started at the
\* same time on an engine left by earlier calls all return, and no state is
\* reached in which every thread that has not returned waits for a lock.
C17_DeadlockFreedom == []NoDeadlock /\ <>AllReturned

\* A thread waits for an account's mutex that another thread holds, while
\* both hold the accounts read lock.
C17_Witness ==
    \E th1 \in Threads, th2 \in Threads :
        /\ pc[th1] = "mutex_lock"
        /\ Waiting(th1)
        /\ mutex[req[th1].client] = th2
        /\ accounts_lock.readers = {th1, th2}

\* ---------------------------------------------------------------- C18
\* The accounts write lock is held only by a deposit that found no account
\* for its client and is about to insert one; the holder has no read guard
\* and no mutex.
WriteLockOnlyToInsert ==
    \A th \in Threads :
        accounts_lock.writer = th =>
            /\ req[th].op = "deposit"
            /\ pc[th] = "accounts_entry"
            /\ req[th].client \notin DOMAIN initial
            /\ th \notin accounts_lock.readers
            /\ MutexesHeld(th) = {}

\* A thread that holds an account's mutex holds one mutex only and its next
\* step requests no lock: it writes the account or prints the row and drops
\* the mutex.
OneMutexAndNoRequest ==
    \A th \in Threads :
        MutexesHeld(th) # {} =>
            /\ Cardinality(MutexesHeld(th)) = 1
            /\ pc[th] \in {"account_store", "print_row"}
            /\ th \in accounts_lock.readers

\* Two threads deposit to two different accounts that exist when the
\* threads start.
DepositsToDifferentAccounts(th1, th2) ==
    /\ th1 # th2
    /\ req[th1].op = "deposit" /\ req[th2].op = "deposit"
    /\ req[th1].client # req[th2].client
    /\ req[th1].client \in DOMAIN initial
    /\ req[th2].client \in DOMAIN initial

\* C18 as stated: the write lock of the accounts table is taken only to
\* insert a new account, a thread that holds an account's mutex holds no
\* second one and requests no lock, and two deposits to different existing
\* accounts never wait for each other.
C18_LockDiscipline ==
    /\ WriteLockOnlyToInsert
    /\ OneMutexAndNoRequest
    /\ \A th1 \in Threads, th2 \in Threads :
           DepositsToDifferentAccounts(th1, th2) => ~Waiting(th1)

\* C18, amended: the write lock of the accounts table is taken only to
\* insert a new account, a thread that holds an account's mutex holds no
\* second one and requests no lock, and of two deposits to different
\* existing accounts one waits for the other only at record_transaction, for
\* the write lock of the transactions table; neither waits for the accounts
\* table or for an account's mutex.
C18_LockDisciplineAmended ==
    /\ WriteLockOnlyToInsert
    /\ OneMutexAndNoRequest
    /\ \A th1 \in Threads, th2 \in Threads :
           DepositsToDifferentAccounts(th1, th2) =>
               (Waiting(th1) =>
                    /\ pc[th1] = "record_lock"
                    /\ transactions_lock = th2)

\* Two deposits to different existing accounts hold the accounts read lock
\* together, each with the mutex of its own account.
C18_Witness ==
    \E th1 \in Threads, th2 \in Threads :
        /\ DepositsToDifferentAccounts(th1, th2)
        /\ pc[th1] = "account_store" /\ pc[th2] = "account_store"
        /\ accounts_lock.readers = {th1, th2}
        /\ mutex[req[th1].client] = th1
        /\ mutex[req[th2].client] = th2

\* ---------------------------------------------------------------- C19
\* C19: when Currency::new(i, f) succeeds with f < 10^4, parsing the
\* rendering of the value succeeds and yields the same value.
C19_RoundTrip ==
    currency.stage = "parsed" =>
        /\ currency.parsed.ok
        /\ currency.parsed.value = currency.value.value

\* ---------------------------------------------------------------- C20
\* The fractional part written with exactly PRECISION digits.
FourDigits(fractional) ==
    [i \in 1..PRECISION |->
        Digits[((fractional \div (10 ^ (PRECISION - i))) % 10) + 1]]

\* C20: the rendering of a value is its integer part, '.', and the
\* PRECISION digits of value mod 10^4.
C20_RenderFourDigits ==
    currency.stage \in {"rendered", "parsed"} =>
        currency.text =
            to_string(currency.value.value \div BASE) \o <<".">>
                \o FourDigits(currency.value.value % BASE)

\* ---------------------------------------------------------------- C21
\* self as call number i of the log left it.
AfterCall(i) ==
    IF i < Len(arith.log) THEN arith.log[i + 1].before ELSE arith.self

\* C21: add(other) succeeds exactly when self + other is at most the largest
\* value and then self is self + other, otherwise it fails with
\* AddingOtherOutOfRange; substract(other) succeeds exactly when other is at
\* most self and then self is self - other, otherwise it fails with
\* SubstractingOtherNegative; a failing call leaves self as it was; and a
\* substract(other) right after a successful add(other) succeeds and gives
\* back the self the add started from.
C21_CheckedArithmetic ==
    /\ \A i \in DOMAIN arith.log :
           LET call == arith.log[i]
               after == AfterCall(i)
           IN  /\ call.op = "add" =>
                      /\ call.result.ok <=> call.before + call.other <= MaxValue
                      /\ call.result.ok => after = call.before + call.other
                      /\ ~call.result.ok =>
                             call.result.err = "AddingOtherOutOfRange"
               /\ call.op = "substract" =>
                      /\ call.result.ok <=> call.other <= call.before
                      /\ call.result.ok => after = call.before - call.other
                      /\ ~call.result.ok =>
                             call.result.err = "SubstractingOtherNegative"
               /\ ~call.result.ok => after = call.before
               /\ after \in Amounts
    /\ \A i \in DOMAIN arith.log :
           (/\ i < Len(arith.log)
            /\ arith.log[i].op = "add"
            /\ arith.log[i].result.ok
            /\ arith.log[i + 1].op = "substract"
            /\ arith.log[i + 1].other = arith.log[i].other) =>
               /\ arith.log[i + 1].result.ok
               /\ AfterCall(i + 1) = arith.log[i].before

\* An add that would pass the largest value failed and left self, then an
\* add of a positive amount succeeded and the substract of the same amount
\* restored self.
C21_Witness ==
    /\ Len(arith.log) = 3
    /\ arith.log[1].op = "add" /\ ~arith.log[1].result.ok
    /\ arith.log[2].op = "add" /\ arith.log[2].result.ok
    /\ arith.log[2].other > 0
    /\ arith.log[3].op = "substract"
    /\ arith.log[3].other = arith.log[2].other
    /\ arith.self = arith.log[1].before

\* ---------------------------------------------------------------- C22
\* C22: Currency::new(i, f) returns FractionalOutOfRange exactly when f is
\* BASE or more; otherwise DecimalMultipliedByPrecisionOutOfRange exactly
\* when i * BASE passes the largest value; otherwise
\* DecimalAddedFractionalOutOfRange exactly when i * BASE + f passes it;
\* otherwise it succeeds with i * BASE + f.  No value it returns is above
\* the largest value, and new(max / BASE, max % BASE) succeeds with it.
C22_NewContract ==
    currency.stage \in {"new", "rendered", "parsed"} =>
        LET i == currency.decimal
            f == currency.fractional
            r == currency.value
        IN  /\ r.err = "FractionalOutOfRange" <=> f >= BASE
            /\ f < BASE =>
                   /\ r.err = "DecimalMultipliedByPrecisionOutOfRange"
                          <=> i * BASE > U64_MAX
                   /\ i * BASE <= U64_MAX =>
                          /\ r.err = "DecimalAddedFractionalOutOfRange"
                                 <=> i * BASE + f > U64_MAX
                          /\ i * BASE + f <= U64_MAX =>
                                 r.ok /\ r.value = i * BASE + f
            /\ r.ok <=> r.err = "None"
            /\ r.ok => r.value <= U64_MAX
            /\ (i = U64_MAX \div BASE /\ f = U64_MAX % BASE) =>
                   r.ok /\ r.value = U64_MAX

\* Currency::max(): new succeeded on the parts of the largest value, and the
\* value has a decimal and a fractional part.
C22_Witness ==
    /\ currency.stage = "new"
    /\ currency.decimal = U64_MAX \div BASE
    /\ currency.fractional = U64_MAX % BASE
    /\ currency.decimal > 0
    /\ currency.fractional > 0
    /\ currency.value.ok
    /\ currency.value.value = U64_MAX

C29_TotalWithinLimit ==
    \A c \in DOMAIN accounts :
        accounts[c].available + accounts[c].held <= MaxValue

\* ---------------------------------------------------------------- C27
\* C27: a dispute of a recorded transaction whose amount is above the
\* available of the client's account fails, leaves every account's available
\* and held as they were (so no balance goes below zero) and leaves the
\* disputed set as it was; when the transaction is not already disputed the
\* error is DisputeCannotSubstractAvailable.
C27_DisputeAboveAvailable ==
    [][(/\ ret'.op = "dispute"
        /\ ret'.client \in DOMAIN accounts
        /\ ret'.tx \in DOMAIN transactions
        /\ transactions[ret'.tx] > accounts[ret'.client].available) =>
          /\ Failed(ret')
          /\ accounts' = accounts
          /\ \A c \in DOMAIN accounts' :
                 accounts'[c].available >= 0 /\ accounts'[c].held >= 0
          /\ transactions_disputed' = transactions_disputed
          /\ ret'.tx \notin transactions_disputed =>
                 ret'.result = "DisputeCannotSubstractAvailable"
      ]_vars

\* A dispute of a transaction was refused on an account that has funds
\* available, but less than the transaction's amount.
C27_Witness ==
    /\ ret.op = "dispute"
    /\ ret.result = "DisputeCannotSubstractAvailable"
    /\ ret.client \in DOMAIN accounts
    /\ ret.tx \in DOMAIN transactions
    /\ accounts[ret.client].available > 0
    /\ transactions[ret.tx] > accounts[ret.client].available
    /\ ret.tx \notin transactions_disputed

\* ---------------------------------------------------------------- C28
\* C28: a dispute, resolve or chargeback for a client that has no account
\* fails and changes nothing: no account appears, no balance changes, the
\* recorded transactions and the disputed set stay as they were.  When the
\* transaction is recorded and is in the state the call needs (not disputed
\* for a dispute, disputed for a resolve or a chargeback) the error is
\* CannotFindAccount.
C28_NoAccountNoChange ==
    [][(IsLifecycle(ret') /\ ret'.client \notin DOMAIN accounts) =>
          /\ Failed(ret')
          /\ accounts' = accounts
          /\ transactions' = transactions
          /\ transactions_disputed' = transactions_disputed
          /\ (/\ ret'.tx \in DOMAIN transactions
              /\ ret'.op = "dispute" <=> ret'.tx \notin transactions_disputed)
                 => ret'.result = "CannotFindAccount"
      ]_vars

\* A resolve of a disputed transaction was refused for a client that has no
\* account; the transaction is still disputed and its amount is still held
\* on another client's account.
C28_Witness ==
    /\ ret.op = "resolve"
    /\ ret.result = "CannotFindAccount"
    /\ ret.client \notin DOMAIN accounts
    /\ ret.tx \in transactions_disputed
    /\ \E c \in DOMAIN accounts :
           accounts[c].held > 0 /\ accounts[c].held = transactions[ret.tx]

\* ------------------------------------------------------- C25 and C26
\* The engine after deposit(c, t1, a), dispute(c, t1), deposit(c, t2, a)
\* called one after the other on the engine as it stands.
HeldThenDeposit(c, t1, t2, a) ==
    deposit(dispute(deposit(engine, c, t1, a), c, t1), c, t2, a)

\* The amounts a with 2a above the largest value.
AboveHalf == {a \in Amounts : 2 * a > MaxValue}

\* C25: for a client without an account, two unused ids and an amount a with
\* 2a above the largest value: after deposit(c, t1, a), dispute(c, t1),
\* deposit(c, t2, a), the call dispute(c, t2) fails with DisputeCannotAddHeld
\* and t2 is not in the disputed set.
C25_SecondDisputeCannotAddHeld ==
    \A c \in Clients \ DOMAIN accounts, a \in AboveHalf :
        \A t1 \in Txs \ DOMAIN transactions, t2 \in Txs \ DOMAIN transactions :
            t1 # t2 =>
                LET d == dispute(HeldThenDeposit(c, t1, t2, a), c, t2)
                IN  /\ d.result = "DisputeCannotAddHeld"
                    /\ t2 \notin d.transactions_disputed

\* C26: for a client without an account, two unused ids and an amount a with
\* 2a above the largest value: after deposit(c, t1, a), dispute(c, t1),
\* deposit(c, t2, a), the call resolve(c, t1) fails with
\* ResolveCannotAddAvailable, leaves the account with available = a and
\* held = a, and t1 is still in the disputed set.
C26_ResolveCannotAddAvailable ==
    \A c \in Clients \ DOMAIN accounts, a \in AboveHalf :
        \A t1 \in Txs \ DOMAIN transactions, t2 \in Txs \ DOMAIN transactions :
            t1 # t2 =>
                LET r == resolve(HeldThenDeposit(c, t1, t2, a), c, t1)
                IN  /\ r.result = "ResolveCannotAddAvailable"
                    /\ r.accounts[c].available = a
                    /\ r.accounts[c].held = a
                    /\ t1 \in r.transactions_disputed

\* ---------------------------------------------------------------- C23
\* The lines of the input that were handed to process_record so far, with
\* results that are errors.
Warned == {i \in 1..Len(stream.processed) : Failed(stream.processed[i])}

\* The records read so far were each processed once and in the order of the
\* input, each with at most one engine call; every error of a record gave
\* one warning and nothing else; process fails only on a line that the
\* reader cannot read, and otherwise returns Ok after the last line that was
\* read, with the summary printed.
StreamInOrder ==
    /\ Len(stream.processed) = stream.read
    /\ Len(stream.input) =
           IF stream.status = "failed" THEN stream.read + 1 ELSE stream.read
    /\ \A i \in 1..stream.read :
           /\ stream.processed[i].record = stream.input[i]
           /\ stream.input[i].kind # "unreadable"
           /\ stream.processed[i].call \in
                  {"none", stream.input[i].transaction.type_}
    /\ stream.warnings = Cardinality(Warned)
    /\ stream.status = "failed" =>
           stream.input[stream.read + 1].kind = "unreadable"
    /\ stream.printed <=> stream.status = "done"

\* process has returned.
Returned == stream.status \in {"done", "failed"}

\* C23: every record of the input is processed exactly once and in input
\* order; a record whose processing returns an error (it does not
\* deserialize, its amount is missing or does not parse, or the engine
\* returns an error) gives a warning only; the records after it are still
\* processed, and unless the reader fails on a line, process reaches the end
\* of the input, prints the summary and returns Ok.
C23_StreamProcessing == []StreamInOrder /\ <>Returned

\* A whole file was processed and the summary printed: its first line did
\* not deserialize, the second was refused by the engine, the third is a
\* deposit that succeeded after those two warnings.
C23_Witness ==
    /\ stream.status = "done"
    /\ stream.printed
    /\ stream.read = 3
    /\ stream.processed[1].result = "CannotDeserializeRecord"
    /\ stream.processed[2].call = "withdrawal"
    /\ stream.processed[2].result = "AccountDoesNotExist"
    /\ stream.processed[3].call = "deposit"
    /\ stream.processed[3].result = "Ok"
    /\ stream.warnings = 2
    /\ DOMAIN accounts = {1}

\* ---------------------------------------------------------------- C30
\* C30: a deposit or withdrawal record whose amount is missing or does not
\* parse is refused before any engine method is called: accounts,
\* transactions and transactions_disputed stay as they were, and an id that
\* was not recorded before is still accepted as new by a deposit and by a
\* withdrawal called afterwards.
C30_BadAmountBeforeEngine ==
    [][(/\ stream'.read = stream.read + 1
        /\ stream'.input[stream'.read].kind = "record"
        /\ LET t == stream'.input[stream'.read].transaction
           IN  /\ t.type_ \in {"deposit", "withdrawal"}
               /\ ~t.amount.some \/ ~try_from(t.amount.text).ok) =>
          LET t == stream'.input[stream'.read].transaction
              done == stream'.processed[stream'.read]
          IN  /\ done.call = "none"
              /\ done.result =
                     IF t.amount.some
                     THEN "CannotParseMandatoryInputAmountInInputRecord"
                     ELSE "MissedMandatoryAmountInInputRecord"
              /\ accounts' = accounts
              /\ transactions' = transactions
              /\ transactions_disputed' = transactions_disputed
              /\ t.tx \notin DOMAIN transactions =>
                     \A amount \in Amounts :
                         /\ deposit(engine', t.client, t.tx, amount).result
                                # "TransactionNotUnique"
                         /\ withdrawal(engine', t.client, t.tx, amount).result
                                # "TransactionNotUnique"
      ]_vars

\* A deposit without an amount and a deposit with an amount that does not
\* parse were refused, and a third deposit with the same id succeeded.
C30_Witness ==
    /\ stream.read = 3
    /\ \A i \in 1..3 :
           /\ stream.input[i].kind = "record"
           /\ stream.input[i].transaction.type_ = "deposit"
           /\ stream.input[i].transaction.tx = stream.input[1].transaction.tx
    /\ stream.processed[1].result = "MissedMandatoryAmountInInputRecord"
    /\ stream.processed[2].result =
           "CannotParseMandatoryInputAmountInInputRecord"
    /\ stream.processed[3].result = "Ok"
    /\ DOMAIN transactions = {stream.input[1].transaction.tx}

\* ---------------------------------------------------------------- C31
\* The outcome of the dispute, resolve or chargeback op called on engine S.
lifecycle(S, op, client, tx) ==
    CASE op = "dispute" -> dispute(S, client, tx)
      [] op = "resolve" -> resolve(S, client, tx)
      [] op = "chargeback" -> chargeback(S, client, tx)

\* C31: a dispute, resolve or chargeback on a locked account returns what it
\* would return on the same account unlocked and leaves the same available,
\* held and disputed set; in particular a resolve that succeeds on a locked
\* account moves the recorded amount from held to available and a chargeback
\* that succeeds takes it from held, and both take the transaction out of the
\* disputed set.
C31_LockedDoesNotBlockLifecycle ==
    [][(/\ IsLifecycle(ret')
        /\ ret'.client \in DOMAIN accounts
        /\ accounts[ret'.client].locked) =>
          LET c == ret'.client
              t == ret'.tx
              unlocked == [engine EXCEPT !.accounts[c].locked = FALSE]
              out == lifecycle(unlocked, ret'.op, c, t)
          IN  /\ ret'.result = out.result
              /\ accounts'[c].available = out.accounts[c].available
              /\ accounts'[c].held = out.accounts[c].held
              /\ accounts'[c].locked
              /\ transactions_disputed' = out.transactions_disputed
              /\ (ret'.op = "resolve" /\ ret'.result = "Ok") =>
                     /\ t \in transactions_disputed
                     /\ accounts'[c].available =
                            accounts[c].available + transactions[t]
                     /\ accounts'[c].held = accounts[c].held - transactions[t]
                     /\ transactions_disputed' = transactions_disputed \ {t}
              /\ (ret'.op = "chargeback" /\ ret'.result = "Ok") =>
                     /\ t \in transactions_disputed
                     /\ accounts'[c].available = accounts[c].available
                     /\ accounts'[c].held = accounts[c].held - transactions[t]
                     /\ transactions_disputed' = transactions_disputed \ {t}
      ]_vars

\* Both deposits of an account were disputed, one was charged back, which
\* locked the account, and the other was then resolved: its amount is
\* available again on the locked account.
C31_Witness ==
    /\ ret.op = "resolve"
    /\ ret.result = "Ok"
    /\ charged_back # {}
    /\ ret.tx \notin charged_back
    /\ accounts[ret.client].locked
    /\ transactions[ret.tx] > 0
    /\ accounts[ret.client].available = transactions[ret.tx]
    /\ accounts[ret.client].held = 0
    /\ transactions_disputed = {}

\* ---------------------------------------------------------------- C32
\* C32: right after a successful resolve(c, t) the transaction is recorded
\* and not disputed, and dispute(c, t) is accepted on the conditions of a
\* first dispute and with its effect: it succeeds exactly when the recorded
\* amount is at most available and held can take it, then moves the amount
\* from available to held and puts t in the disputed set; and a resolve
\* right after that dispute succeeds and gives back the accounts and the
\* disputed set as they are now, so the cycle can be repeated.
C32_ResolvedIsRecorded ==
    (ret.op = "resolve" /\ ret.result = "Ok") =>
        LET c == ret.client
            t == ret.tx
            d == dispute(engine, c, t)
        IN  /\ t \in DOMAIN transactions
            /\ t \notin transactions_disputed
            /\ c \in DOMAIN accounts
            /\ d.result = "Ok" <=>
                   /\ transactions[t] <= accounts[c].available
                   /\ accounts[c].held + transactions[t] <= MaxValue
            /\ d.result # "Ok" =>
                   /\ d.result \in {"DisputeCannotSubstractAvailable",
                                    "DisputeCannotAddHeld"}
                   /\ d.transactions_disputed = transactions_disputed
            /\ d.result = "Ok" =>
                   /\ d.accounts =
                          [accounts EXCEPT
                               ![c].available = @ - transactions[t],
                               ![c].held = @ + transactions[t]]
                   /\ d.transactions_disputed = transactions_disputed \cup {t}
                   /\ LET r == resolve(d, c, t)
                      IN  /\ r.result = "Ok"
                          /\ r.accounts = accounts
                          /\ r.transactions = transactions
                          /\ r.transactions_disputed = transactions_disputed

\* The only transaction of the only account went through dispute and
\* resolve, the fifth call was a resolve that succeeded, and a dispute of
\* the transaction would be accepted once more.
C32_Witness ==
    /\ ncalls = 5
    /\ ret.op = "resolve"
    /\ ret.result = "Ok"
    /\ DOMAIN transactions = {ret.tx}
    /\ DOMAIN accounts = {ret.client}
    /\ transactions[ret.tx] > 0
    /\ accounts[ret.client].available = transactions[ret.tx]
    /\ accounts[ret.client].held = 0
    /\ dispute(engine, ret.client, ret.tx).result = "Ok"

\* ---------------------------------------------------------------- C33
\* C33: a call with client id c changes at most the account of c: whatever
\* the operation and whatever it returns, every other account keeps its
\* available, held and locked, and no other account appears or disappears.
C33_OnlyOwnAccountTouched ==
    [][\A k \in (DOMAIN accounts \cup DOMAIN accounts') \ {ret'.client} :
          /\ k \in DOMAIN accounts
          /\ k \in DOMAIN accounts'
          /\ accounts'[k] = accounts[k]
      ]_vars

\* A chargeback locked one account and took its held amount while the other
\* account, which has funds, stayed unlocked.
C33_Witness ==
    /\ ret.op = "chargeback"
    /\ ret.result = "Ok"
    /\ transactions[ret.tx] > 0
    /\ DOMAIN accounts = Clients
    /\ accounts[ret.client].locked
    /\ \A k \in Clients \ {ret.client} :
           ~accounts[k].locked /\ accounts[k].available > 0

\* ---------------------------------------------------------------- C34
\* C34: no call removes an account, and the only call that adds one is a
\* deposit that returns Ok, which adds the account of its client: a
\* withdrawal, dispute, resolve, chargeback or failed deposit leaves the set
\* of client ids as it was.
C34_AccountsOnlyByDeposit ==
    [][/\ DOMAIN accounts \subseteq DOMAIN accounts'
       /\ DOMAIN accounts' # DOMAIN accounts =>
              /\ ret'.op = "deposit"
              /\ ret'.result = "Ok"
              /\ DOMAIN accounts' = DOMAIN accounts \cup {ret'.client}
      ]_vars

\* A withdrawal for a client without an account was refused and opened no
\* account, while the other client has one.
C34_Witness ==
    /\ ret.op = "withdrawal"
    /\ ret.result = "AccountDoesNotExist"
    /\ ret.amount > 0
    /\ ret.client \notin DOMAIN accounts
    /\ DOMAIN accounts = Clients \ {ret.client}

\* ---------------------------------------------------------------- C35
\* C35: a dispute, resolve or chargeback that names a transaction of another
\* client changes nothing on the caller's account.  Stated where the owner
\* of a transaction is known from the call just made: right after a deposit
\* or withdrawal of client c with id t returned Ok (so t was new and belongs
\* to c), no dispute, resolve or chargeback of t by another client k changes
\* available, held or locked of k's account.
C35_OnlyOwnerMovesFunds ==
    (IsPayment(ret) /\ ret.result = "Ok") =>
        \A k \in DOMAIN accounts \ {ret.client} :
            \A op \in {"dispute", "resolve", "chargeback"} :
                lifecycle(engine, op, k, ret.tx).accounts[k] = accounts[k]

\* ---------------------------------------------------------------- C36
\* C36: available + held of an account changes only by the amounts of its
\* successful deposits, withdrawals and chargebacks.  Stated for the calls
\* that must not change it at all: a dispute or a resolve, whether it
\* returns Ok or an error, leaves available + held of every account as it
\* was.
C36_DisputeResolveConserve ==
    [][ret'.op \in {"dispute", "resolve"} =>
          /\ DOMAIN accounts' = DOMAIN accounts
          /\ \A c \in DOMAIN accounts :
                 accounts'[c].available + accounts'[c].held =
                     accounts[c].available + accounts[c].held
      ]_vars

\* ---------------------------------------------------------------- C37
\* C37: of the dispute, resolve and chargeback calls that threads make at the
\* same time on one transaction id, those that return Ok alternate: two
\* disputes never both return Ok, and two calls that are each a resolve or a
\* chargeback never both return Ok.
C37_LifecycleAlternates ==
    \A a \in Threads, b \in Threads :
        (/\ a # b
         /\ IsLifecycle(req[a])
         /\ IsLifecycle(req[b])
         /\ req[a].tx = req[b].tx
         /\ req[a].result = "Ok"
         /\ req[b].result = "Ok") =>
            (req[a].op = "dispute") # (req[b].op = "dispute")

====
